---- MODULE Spec2Model ----
(***************************************************************************)
(* pps-backend: the ingestion pipeline (scrape, dedup, embed, transform,   *)
(* store, classify) of src/services/cron.js over the posts table, together *)
(* with the PUT /api/posts/:id handler that writes the same table.         *)
(*                                                                         *)
(* Texts are sequences of tokens, URLs are the sequences of pieces that    *)
(* String.split('/') yields, optional values are sequences of length <= 1, *)
(* JSON/SQL scalars are strings ("true", "false", "null", ...); an empty   *)
(* text stands for a missing (null) text.                                  *)
(***************************************************************************)
EXTENDS Integers, Sequences, FiniteSets, TLC

VARIABLES
    world,        \* the external web site: listing pages and article pages
    store,        \* the posts table: sequence of rows, row k has id k
    run,          \* run[r]: the frame of one runScrapingAndClassificationJob
    runsStarted,  \* number of job invocations so far
    build,        \* which copy of models/post.js the application imports
    put,          \* the in-flight PUT /api/posts/:id request, if any
    putsDone,     \* number of PUT requests handled so far
    call,         \* a single call of one function of the program, made on
                  \* its own: the function, its argument and its result
    sched         \* the scheduler of startCronJob: the environment it reads,
                  \* the task it registered, the clock, the runs it started

vars == <<world, store, run, runsStarted, build, put, putsDone, call, sched>>

(***************************************************************************)
(* Bounds of the model.                                                    *)
(***************************************************************************)
MaxRuns == 2
MaxPuts == 1

(***************************************************************************)
(* Optional values and small helpers.                                      *)
(***************************************************************************)
None == <<>>
Some(v) == <<v>>
IsSome(o) == Len(o) > 0
Get(o) == o[1]

Last(s) == s[Len(s)]

RECURSIVE SelectNonEmpty(_)
\* Array.prototype.filter(Boolean) on an array of strings
SelectNonEmpty(pieces) ==
    IF pieces = <<>> THEN <<>>
    ELSE IF Head(pieces) = "" THEN SelectNonEmpty(Tail(pieces))
    ELSE <<Head(pieces)>> \o SelectNonEmpty(Tail(pieces))

\* String.prototype.includes for a path fragment, on the pieces of a URL
Includes(url, frag) == \E k \in 1..Len(url) : url[k] = frag

(***************************************************************************)
(* Scraper (services/scraper.js).                                          *)
(***************************************************************************)
baseUrl == <<"https:", "", "www.moneycontrol.com">>

MONEYCONTROL_URLS ==
    << baseUrl \o <<"news", "business", "personal-finance", "">>,
       baseUrl \o <<"news", "politics", "">>,
       baseUrl \o <<"news", "business", "economy", "">> >>

\* MAX_ARTICLES_PER_URL || '5'
maxArticlesPerURL == 5

\* link.startsWith('http') ? link : `https://www.moneycontrol.com${link}`
NormalizeLink(link) ==
    IF Head(link) \in {"http:", "https:"} THEN link
    ELSE IF Head(link) = "" THEN baseUrl \o Tail(link)
    ELSE <<"https:", "", "www.moneycontrol.com" \o Head(link)>> \o Tail(link)

\* `moneycontrol_${link.split('/').filter(Boolean).pop()}`
SourceId(link) ==
    LET segs == SelectNonEmpty(link)
    IN  "moneycontrol_" \o (IF segs = <<>> THEN "undefined" ELSE Last(segs))

Category(targetUrl) ==
    IF Includes(targetUrl, "personal-finance") THEN "personal-finance"
    ELSE IF Includes(targetUrl, "banking") THEN "banking"
    ELSE IF Includes(targetUrl, "india") THEN "india"
    ELSE IF Includes(targetUrl, "city") THEN "city"
    ELSE IF Includes(targetUrl, "world") THEN "world"
    ELSE IF Includes(targetUrl, "politics") THEN "politics"
    ELSE IF Includes(targetUrl, "defence") THEN "defence"
    ELSE IF Includes(targetUrl, "economy") THEN "economy"
    ELSE "general"

(***************************************************************************)
(* parseMoneycontrolDate (utils/dateParser.js).  A date text is a sequence *)
(* of tokens: "D" is a date-time the Date constructor parses, "Updated",   *)
(* "Published", ":" and "IST" are the labels the fallback strips, anything *)
(* else is text the constructor rejects.  The result is "D" or "now".      *)
(***************************************************************************)
DateValid(s) == s = <<"D">>

RECURSIVE DropLabel(_)
\* .replace(/(Updated|Published)\s*:?/i, '')
DropLabel(s) ==
    IF s = <<>> THEN <<>>
    ELSE IF Head(s) \in {"Updated", "Published"}
         THEN IF Tail(s) # <<>> /\ Head(Tail(s)) = ":" THEN Tail(Tail(s)) ELSE Tail(s)
    ELSE <<Head(s)>> \o DropLabel(Tail(s))

RECURSIVE DropIST(_)
\* .replace(/\s+IST/i, ''): an IST that follows white space, so not a leading one
DropIST(s) ==
    IF Len(s) < 2 THEN s
    ELSE IF s[2] = "IST" THEN <<Head(s)>> \o Tail(Tail(s))
    ELSE <<Head(s)>> \o DropIST(Tail(s))

\* A parser that hands back what the retry gave, valid or not
parseMoneycontrolDate_NoFallback(dateString) ==
    IF dateString = <<>> THEN "now"
    ELSE IF DateValid(dateString) THEN "D"
    ELSE IF DateValid(DropIST(DropLabel(dateString))) THEN "D"
    ELSE "Invalid Date"

parseMoneycontrolDate(dateString) ==
    IF dateString = <<>> THEN "now"
    ELSE IF DateValid(dateString) THEN "D"
    ELSE IF DateValid(DropIST(DropLabel(dateString))) THEN "D"
    ELSE "now"

\* 3. Map to our DB schema: the record scrapeMoneycontrolFeed pushes
PostData(targetUrl, title, link, articleBody) ==
    [ source       |-> "moneycontrol",
      source_id    |-> SourceId(link),
      title        |-> title,
      content      |-> IF articleBody.full_body = <<>> THEN title
                       ELSE articleBody.full_body,
      url          |-> link,
      author       |-> articleBody.artical_author_name,
      published_at |-> parseMoneycontrolDate(articleBody.artical_published_date_time),
      metadata     |-> Some([ category           |-> Category(targetUrl),
                              raw_published_text |->
                                  articleBody.artical_published_date_time,
                              scraped_from       |-> targetUrl,
                              scraped_at         |-> "now" ]) ]

\* A loop body that takes a premium entry like any other
ScrapeItem_KeepPremium(targetUrl, item, fetched) ==
    IF ~item.h2 THEN <<>>
    ELSE IF item.title = <<>> \/ item.href = <<>> THEN <<>>
    ELSE IF ~fetched[NormalizeLink(item.href)] THEN <<>>
    ELSE <<PostData(targetUrl, item.title, NormalizeLink(item.href),
                    world.articles[NormalizeLink(item.href)])>>

\* The loop body of scrapeMoneycontrolFeed for one li.clearfix entry: the
\* posts it pushes.  fetched[link] is whether getArticleBody returns an object
\* (FALSE: it returns an error string: non-200, exception, no content div).
ScrapeItem(targetUrl, item, fetched) ==
    IF ~item.h2 THEN <<>>
    ELSE IF item.premium THEN <<>>
    ELSE IF item.title = <<>> \/ item.href = <<>> THEN <<>>
    ELSE IF ~fetched[NormalizeLink(item.href)] THEN <<>>
    ELSE <<PostData(targetUrl, item.title, NormalizeLink(item.href),
                    world.articles[NormalizeLink(item.href)])>>

RECURSIVE ScrapeItems(_, _, _, _)
\* A loop over every entry of the page
ScrapeItems_NoCap(targetUrl, items, j, fetched) ==
    IF j > Len(items) THEN <<>>
    ELSE ScrapeItem(targetUrl, items[j], fetched)
         \o ScrapeItems(targetUrl, items, j + 1, fetched)

\* for (let i = 0; i < articlesToProcess.length; i++): entries j..n of the page
ScrapeItems(targetUrl, items, j, fetched) ==
    IF j > Len(items) \/ j > maxArticlesPerURL THEN <<>>
    ELSE ScrapeItem(targetUrl, items[j], fetched)
         \o ScrapeItems(targetUrl, items, j + 1, fetched)

\* scrapeMoneycontrolFeed: listingOk is whether the listing page came back
\* with status 200 and holds the #cagetory list
scrapeMoneycontrolFeed(s, listingOk, fetched) ==
    IF ~listingOk THEN <<>>
    ELSE ScrapeItems(MONEYCONTROL_URLS[s], world.listings[s], 1, fetched)

RECURSIVE ScrapeFrom(_, _)
\* A loop over the sources that a failed listing ends
ScrapeFrom_StopAtFailure(s, env) ==
    IF s > Len(MONEYCONTROL_URLS) \/ ~env.listing[s] THEN <<>>
    ELSE scrapeMoneycontrolFeed(s, env.listing[s], env.article)
         \o ScrapeFrom(s + 1, env)

\* for (const url of MONEYCONTROL_URLS): sources s.. in order
ScrapeFrom(s, env) ==
    IF s > Len(MONEYCONTROL_URLS) THEN <<>>
    ELSE scrapeMoneycontrolFeed(s, env.listing[s], env.article)
         \o ScrapeFrom(s + 1, env)

\* scrapeAllMoneyControl: the feeds of all sources, in order, concatenated
scrapeAllMoneyControl(env) == ScrapeFrom(1, env)

\* The axios.get calls one scrape makes and the sleeps between them, in
\* order: the listing page of each source (j = 0) and, when it came back, the
\* page of every entry that is neither skipped nor past maxArticles; ok is
\* whether the call gave a page the scraper can use
Fetch(op, s, j, ok) == [op |-> op, s |-> s, j |-> j, ok |-> ok]

\* SCRAPING_DELAY_MS || '1000'
SCRAPING_DELAY_MS == 1000

\* await sleep(2000) after each source
DelayBetweenUrls == 2000

\* await sleep(ms), made for entry j of source s (j = 0: after the source)
Sleep(s, j, ms) == [op |-> "sleep", s |-> s, j |-> j, ok |-> TRUE, ms |-> ms]

RECURSIVE ItemFetches(_, _, _, _)
ItemFetches(s, items, j, fetched) ==
    IF j > Len(items) \/ j > maxArticlesPerURL THEN <<>>
    ELSE (IF ~items[j].h2 \/ items[j].premium
             \/ items[j].title = <<>> \/ items[j].href = <<>>
          THEN <<>>
          ELSE <<Sleep(s, j, SCRAPING_DELAY_MS),
                 Fetch("getArticleBody", s, j, fetched[NormalizeLink(items[j].href)])>>)
         \o ItemFetches(s, items, j + 1, fetched)

RECURSIVE FetchesFrom(_, _)
\* A loop over the sources that pauses only after a source that gave posts
FetchesFrom_NoPauseAfterFailure(s, env) ==
    IF s > Len(MONEYCONTROL_URLS) THEN <<>>
    ELSE <<Fetch("listing", s, 0, env.listing[s])>>
         \o (IF env.listing[s] THEN ItemFetches(s, world.listings[s], 1, env.article)
             ELSE <<>>)
         \o (IF scrapeMoneycontrolFeed(s, env.listing[s], env.article) # <<>>
             THEN <<Sleep(s, 0, DelayBetweenUrls)>> ELSE <<>>)
         \o FetchesFrom(s + 1, env)

FetchesFrom(s, env) ==
    IF s > Len(MONEYCONTROL_URLS) THEN <<>>
    ELSE <<Fetch("listing", s, 0, env.listing[s])>>
         \o (IF env.listing[s] THEN ItemFetches(s, world.listings[s], 1, env.article)
             ELSE <<>>)
         \o <<Sleep(s, 0, DelayBetweenUrls)>>
         \o FetchesFrom(s + 1, env)

(***************************************************************************)
(* Results of calls that may throw.                                        *)
(***************************************************************************)
Ok(v) == [ok |-> TRUE, value |-> v]
Err(m) == [ok |-> FALSE, error |-> m]

\* A provider reply: the call threw (network error, timeout of the client)
\* or came back with a payload
Threw == [threw |-> TRUE]
Reply(c) == [threw |-> FALSE, content |-> c]

RECURSIVE TrimLeft(_)
TrimLeft(s) == IF s # <<>> /\ Head(s) = " " THEN TrimLeft(Tail(s)) ELSE s

RECURSIVE TrimRight(_)
TrimRight(s) ==
    IF s # <<>> /\ Last(s) = " " THEN TrimRight(SubSeq(s, 1, Len(s) - 1)) ELSE s

\* String.prototype.trim
Trim(s) == TrimRight(TrimLeft(s))

(***************************************************************************)
(* Embedding stage (services/embedding.js).  A vector is the text it was   *)
(* computed from and its dimension.                                        *)
(***************************************************************************)
maxLength == 8000
EmbeddingDim == 768

Vector(text, dim) == [of |-> text, dim |-> dim]

\* What ollama.embed can answer: an error, no embeddings, a vector of the
\* column's dimension, a vector of another dimension (EMBEDDING_MODEL names
\* the model, so its dimension is the deployment's choice)
EmbedKinds == {"error", "empty", "vector", "vector1024"}

ollama_embed(input, kind) ==
    CASE kind = "error" -> Threw
      [] kind = "empty" -> Reply(<<>>)
      [] kind = "vector" -> Reply(<<Vector(input, EmbeddingDim)>>)
      [] OTHER -> Reply(<<Vector(input, 1024)>>)

generateEmbedding(text, kind) ==
    IF Trim(text) = <<>> THEN Err("Text cannot be empty")
    ELSE LET truncatedText == IF Len(text) > maxLength
                              THEN SubSeq(text, 1, maxLength) ELSE text
             response == ollama_embed(truncatedText, kind)
         IN  IF response.threw THEN Err("provider error")
             ELSE IF response.content = <<>>
                  THEN Err("No embedding data returned from Ollama")
             ELSE Ok(response.content[1])

\* `${post.title}\n\n${post.content}`
CombinedText(post) == post.title \o <<"\n\n">> \o post.content

generatePostEmbedding(post, kind) == generateEmbedding(CombinedText(post), kind)

(***************************************************************************)
(* Transform stage (services/contentTransformer.js).                       *)
(***************************************************************************)
\* The explainer the LLM writes for a content
QA(content) == <<"Q&A">> \o content

\* What ollama.chat can answer: an error, nothing, white space, an explainer
TransformReplies(post) ==
    { Threw, Reply(<<>>), Reply(<<" ">>), Reply(<<" ">> \o QA(post.content)) }

transformContentToQA(post, response) ==
    IF post.content = <<>> THEN Err("Post content is missing or invalid.")
    ELSE IF response.threw THEN Err("provider error")
    ELSE LET transformed == Trim(response.content)
         IN  IF transformed = <<>>
             THEN Err("LLM returned empty content for Q&A transformation.")
             ELSE Ok(transformed)

(***************************************************************************)
(* Classification stage (services/classifier.js).  The reply's content is  *)
(* a sequence of tokens: "{" and "}", members of an object ("key=value"),  *)
(* JSON scalars ("null", "42"), and "text" for anything that is no JSON.   *)
(***************************************************************************)
Members ==
    { "is_interesting=true", "is_interesting='true'", "is_interesting=false",
      "is_interesting='false'", "is_interesting='yes'",
      "reasoning='r'", "reasoning=''", "content_pillar='SCHEMES'",
      "policy_anchor='PM-KISAN'" }

MemberKey(m) ==
    CASE m \in {"is_interesting=true", "is_interesting='true'", "is_interesting=false",
                "is_interesting='false'", "is_interesting='yes'"} -> "is_interesting"
      [] m \in {"reasoning='r'", "reasoning=''"} -> "reasoning"
      [] m = "content_pillar='SCHEMES'" -> "content_pillar"
      [] OTHER -> "policy_anchor"

MemberValue(m) ==
    CASE m = "is_interesting=true" -> "true"
      [] m = "is_interesting='true'" -> "'true'"
      [] m = "is_interesting=false" -> "false"
      [] m = "is_interesting='false'" -> "'false'"
      [] m = "is_interesting='yes'" -> "'yes'"
      [] m = "reasoning='r'" -> "'r'"
      [] m = "reasoning=''" -> "''"
      [] m = "content_pillar='SCHEMES'" -> "'SCHEMES'"
      [] OTHER -> "'PM-KISAN'"

\* JS truthiness of a JSON value (undefined: the member is missing)
Truthy(v) == v \notin {"undefined", "null", "false", "''", "0"}

\* The value of the object whose members are the tokens of ms: a later
\* member of the same key wins
RECURSIVE ObjectOf(_)
ObjectOf(ms) ==
    IF ms = <<>> THEN [k \in {} |-> "undefined"]
    ELSE LET rest == ObjectOf(SubSeq(ms, 1, Len(ms) - 1))
             m == Last(ms)
         IN  [k \in DOMAIN rest \cup {MemberKey(m)} |->
                 IF k = MemberKey(m) THEN MemberValue(m) ELSE rest[k]]

\* JSON.parse: Err on a SyntaxError, else Ok of [kind, members]
JSONParse(text) ==
    LET t == Trim(text)
    IN  IF t = <<>> THEN Err("Unexpected end of JSON input")
        ELSE IF Len(t) = 1 /\ t[1] \in {"null", "42", "'s'", "[]"}
             THEN Ok([kind |-> t[1], members |-> ObjectOf(<<>>)])
        ELSE IF /\ Len(t) >= 2 /\ Head(t) = "{" /\ Last(t) = "}"
                /\ \A k \in 2..(Len(t) - 1) : t[k] \in Members
             THEN Ok([kind |-> "object", members |-> ObjectOf(SubSeq(t, 2, Len(t) - 1))])
        ELSE Err("Unexpected token")

\* content.match(/\{[\s\S]*\}/): from the first "{" to the last "}"
JsonMatch(content) ==
    LET opens == {k \in 1..Len(content) : content[k] = "{"}
        closes == {k \in 1..Len(content) : content[k] = "}"}
    IN  IF opens = {} THEN None
        ELSE LET first == CHOOSE k \in opens : \A j \in opens : k <= j
                 after == {k \in closes : k > first}
             IN  IF after = {} THEN None
                 ELSE LET last == CHOOSE k \in after : \A j \in after : j <= k
                      IN  Some(SubSeq(content, first, last))

\* A member access that reads native booleans alone
Member_NativeOnly(parsed, key) ==
    IF key \in DOMAIN parsed.members /\ parsed.members[key] \in {"true", "false"}
    THEN parsed.members[key] ELSE "undefined"

\* obj.key for a parsed value: undefined for a missing member and for any
\* member of a number
Member(parsed, key) ==
    IF key \in DOMAIN parsed.members THEN parsed.members[key] ELSE "undefined"

\* The catch block's result
\* A failure reported as "not interesting"
ClassificationFailed_AsFalse(message) ==
    [ is_interesting |-> "false",
      reasoning      |-> "Classification failed: " \o message,
      content_pillar |-> "null",
      policy_anchor  |-> "null" ]

ClassificationFailed(message) ==
    [ is_interesting |-> "null",
      reasoning      |-> "Classification failed: " \o message,
      content_pillar |-> "null",
      policy_anchor  |-> "null" ]

\* value || null
OrNull(v) == IF Truthy(v) THEN v ELSE "null"

classifyArticle(article, response) ==
    IF response.threw THEN ClassificationFailed("provider error")
    ELSE IF response.content = <<>>
         THEN ClassificationFailed("No response content from Ollama")
    ELSE LET direct == JSONParse(response.content)
             jsonMatch == JsonMatch(response.content)
             parsed == IF direct.ok THEN direct
                       ELSE IF IsSome(jsonMatch) THEN JSONParse(Get(jsonMatch))
                       ELSE Err("Could not parse Ollama response as JSON")
         IN  IF ~parsed.ok THEN ClassificationFailed(parsed.error)
             ELSE IF parsed.value.kind = "null"
                  THEN ClassificationFailed("Cannot read properties of null")
             ELSE [ is_interesting |->
                        IF Member(parsed.value, "is_interesting") \in {"true", "'true'"}
                        THEN "true" ELSE "false",
                    reasoning      |-> OrNull(Member(parsed.value, "reasoning")),
                    content_pillar |-> OrNull(Member(parsed.value, "content_pillar")),
                    policy_anchor  |-> OrNull(Member(parsed.value, "policy_anchor")) ]

(***************************************************************************)
(* The posts table and models/post.js.                                     *)
(***************************************************************************)
Ids == 1..Len(store)

\* 'SELECT id FROM posts WHERE source_id = $1' ... rows.length > 0
\* A duplicate filter that looks the id up in the wrong column
postExists_WrongColumn(sourceId) == \E id \in Ids : store[id].source = sourceId

postExists(sourceId) == \E id \in Ids : store[id].source_id = sourceId

\* A posts table without the UNIQUE constraint
UniqueViolation_NoConstraint(sourceId) == FALSE

\* source_id VARCHAR(255) UNIQUE NOT NULL
UniqueViolation(sourceId) == \E id \in Ids : store[id].source_id = sourceId

\* The INSERT's checks: source_id UNIQUE, the vector columns' dimensions,
\* the NOT NULL columns
InsertRejected(postData) ==
    \/ UniqueViolation(postData.source_id)
    \/ IsSome(postData.embedding) /\ Get(postData.embedding).dim # 1536
    \/ IsSome(postData.embedding_v2) /\ Get(postData.embedding_v2).dim # EmbeddingDim
    \/ postData.title = <<>> \/ postData.content = <<>> \/ postData.url = <<>>

\* The row INSERT ... RETURNING * gives back (by: the run that inserted it)
\* A row of the table: the post's columns under the id the sequence gave it;
\* n is the invocation that inserted it
RowWith(postData, id, n) ==
    [ id             |-> id,
      source         |-> postData.source,
      source_id      |-> postData.source_id,
      title          |-> postData.title,
      content        |-> postData.content,
      url            |-> postData.url,
      author         |-> postData.author,
      published_at   |-> postData.published_at,
      is_interesting |-> postData.is_interesting,
      embedding      |-> postData.embedding,
      embedding_v2   |-> postData.embedding_v2,
      metadata       |-> postData.metadata,
      by             |-> n ]

\* INSERT INTO posts ... RETURNING *
InsertedRow(postData, n) == RowWith(postData, Len(store) + 1, n)

\* insertPost: dbUp is whether the query reaches the database
insertPost(postData, n, dbUp) ==
    IF ~dbUp THEN Err("connection error")
    ELSE IF InsertRejected(postData) THEN Err("rejected")
    ELSE Ok(InsertedRow(postData, n))

EmptyObject == [k \in {} |-> "undefined"]

\* jsonb || jsonb on two objects: the right operand's members win
Merge(old, patch) ==
    [k \in DOMAIN old \cup DOMAIN patch |->
        IF k \in DOMAIN patch THEN patch[k] ELSE old[k]]

Field(obj, key) == IF key \in DOMAIN obj THEN obj[key] ELSE "undefined"

\* A JSON array value, kept apart from the objects: it has elements, no members
Array(items) == [k \in {"[]"} |-> items]

IsArray(v) == DOMAIN v = {"[]"}

Items(v) == IF IsArray(v) THEN v["[]"] ELSE <<v>>

\* Object.keys(v).length
KeyCount(v) == IF IsArray(v) THEN Len(v["[]"]) ELSE Cardinality(DOMAIN v)

\* jsonb || jsonb: two objects are merged; in every other case an operand that
\* is not an array is taken as a one-element array and the arrays are joined
Concat(old, patch) ==
    IF ~IsArray(old) /\ ~IsArray(patch) THEN Merge(old, patch)
    ELSE Array(Items(old) \o Items(patch))

\* The $2 parameter updatePostClassification builds (models/post.js): the
\* data only if one of the three classification members is truthy.
\* classificationData is optional: None is JS null.
MetadataParam(classificationData) ==
    IF ~IsSome(classificationData) THEN Err("Cannot read properties of null")
    ELSE LET data == Get(classificationData)
         IN  IF \/ Truthy(Field(data, "reasoning"))
                \/ Truthy(Field(data, "content_pillar"))
                \/ Truthy(Field(data, "policy_anchor"))
             THEN Ok(data) ELSE Ok(EmptyObject)

\* The same parameter in the other copy of models/post.js: any non-empty data
MetadataParamV2(classificationData) ==
    IF IsSome(classificationData) /\ KeyCount(Get(classificationData)) > 0
    THEN Ok(Get(classificationData)) ELSE Ok(EmptyObject)

\* An UPDATE that also empties the author column
UpdatedRow_ClearsAuthor(row, isInteresting, patch) ==
    [row EXCEPT !.is_interesting = isInteresting,
                !.author = "null",
                !.metadata = Some(Concat(IF IsSome(row.metadata) THEN Get(row.metadata)
                                         ELSE EmptyObject, patch))]

\* UPDATE posts SET is_interesting = $1,
\*   metadata = COALESCE(metadata, '{}'::jsonb) || $2::jsonb WHERE id = $3
UpdatedRow(row, isInteresting, patch) ==
    [row EXCEPT !.is_interesting = isInteresting,
                !.metadata = Some(Concat(IF IsSome(row.metadata) THEN Get(row.metadata)
                                         ELSE EmptyObject, patch))]

\* updatePostClassification: Err when it throws, else Ok of the rows the
\* UPDATE returned (none when no row has the id)
updatePostClassification(postId, isInteresting, classificationData, dbUp) ==
    LET param == IF build = "models/post.js" THEN MetadataParam(classificationData)
                 ELSE MetadataParamV2(classificationData)
    IN  IF ~param.ok THEN param
        ELSE IF ~dbUp THEN Err("connection error")
        ELSE IF postId \notin Ids THEN Ok(<<>>)
        ELSE Ok(<<UpdatedRow(store[postId], isInteresting, param.value)>>)

\* The table after updatePostClassification returned result
StoreAfterUpdate(result) ==
    IF result.ok /\ result.value # <<>>
    THEN [store EXCEPT ![result.value[1].id] = result.value[1]]
    ELSE store

(***************************************************************************)
(* The web site the model scrapes: a free article and a premium one on the *)
(* first listing, one article (relative link, no paragraphs) on the second,*)
(* the same article again (absolute link) on the third.                    *)
(***************************************************************************)
LinkA == baseUrl \o <<"news", "business", "personal-finance", "a-1.html">>
LinkB == <<"", "news", "politics", "b-2.html">>
LinkP == baseUrl \o <<"news", "business", "personal-finance", "p-3.html">>

Entry(title, href, premium) ==
    [h2 |-> TRUE, premium |-> premium, title |-> title, href |-> href]

Page(body, author, published) ==
    [full_body |-> body, artical_author_name |-> author,
     artical_published_date_time |-> published]

Site ==
    [ listings |-> << <<Entry(<<"A">>, LinkA, FALSE), Entry(<<"P">>, LinkP, TRUE)>>,
                      <<Entry(<<"B">>, LinkB, FALSE)>>,
                      <<Entry(<<"B">>, NormalizeLink(LinkB), FALSE)>> >>,
      articles |-> [ l \in {NormalizeLink(LinkA), NormalizeLink(LinkB),
                            NormalizeLink(LinkP)} |->
                       IF l = NormalizeLink(LinkA)
                       THEN Page(<<"a1", "a2">>, "Author", <<"D">>)
                       ELSE IF l = NormalizeLink(LinkB)
                       THEN Page(<<>>, "null", <<"Updated", ":", "D", "IST">>)
                       ELSE Page(<<"p1">>, "null", <<>>) ] ]

\* What the network can do to one scrape: each listing fetch and each
\* article fetch succeeds or fails
ScrapeEnvs ==
    [ listing : [1..Len(MONEYCONTROL_URLS) -> BOOLEAN],
      article : [DOMAIN world.articles -> BOOLEAN] ]

\* What the classifier's LLM answers in a run: an error, nothing, text that
\* is no JSON, a decision, a decision wrapped in text
ClassifyReplies ==
    { Threw, Reply(<<>>), Reply(<<"text", "}">>),
      Reply(<<"{", "is_interesting=true", "reasoning='r'",
              "content_pillar='SCHEMES'", "policy_anchor='PM-KISAN'", "}">>),
      Reply(<<"text", "{", "is_interesting=false", "reasoning='r'", "}">>) }

\* What a PUT /api/posts/:id can carry
PutBodies ==
    [ is_interesting : {"undefined", "false"},
      metadata : {None, Some([note |-> "'n'"]), Some(Array(<<"1">>))} ]

(***************************************************************************)
(* State.                                                                  *)
(***************************************************************************)
Slots == 1..2

IdleFrame ==
    [ pc |-> "idle", n |-> 0, scrapedPosts |-> <<>>, i |-> 0, newPosts |-> <<>>,
      storedPosts |-> <<>>, storedFrom |-> <<>>, embedding_v2 |-> None,
      contentToStore |-> <<>>, classification |-> None, classifiedCount |-> 0,
      log |-> <<>>, ended |-> "", fetches |-> <<>>, articles |-> <<>>,
      summary |-> None ]

IdlePut == [pc |-> "idle", id |-> 0, body |-> None, existing |-> None, status |-> 0]

\* No function is called on its own
NoCall == [fn |-> "", arg |-> <<>>, result |-> None]

\* The scheduler is left out
NoSched == [pc |-> "out"]

Init ==
    /\ world = Site
    /\ store = <<>>
    /\ run = [r \in Slots |-> IdleFrame]
    /\ runsStarted = 0
    /\ build = "models/post.js"
    /\ put = IdlePut
    /\ putsDone = 0
    /\ sched = NoSched
    /\ call = NoCall

\* An entry of a run's log: the call, the scraped item (index in scrapedPosts)
\* it is for, whether it returned (FALSE: it threw) and what it returned
Event(op, k, ok, val) == [op |-> op, k |-> k, ok |-> ok, val |-> val]

SetFrame(r, f) == run' = [run EXCEPT ![r] = f]

(***************************************************************************)
(* runScrapingAndClassificationJob (services/cron.js), one action per      *)
(* awaited call.  The pacing timers (200 ms after a stored post, 500 ms    *)
(* after a classified one) touch no state and are part of the step before. *)
(***************************************************************************)
\* A summary that reports every new post as stored
Summary_NewAsStored(f) ==
    [ scraped     |-> Len(f.scrapedPosts),
      new         |-> Len(f.newPosts),
      stored      |-> Len(f.newPosts),
      interesting |-> f.classifiedCount ]

\* The Job Summary the function logs before it returns
Summary(f) ==
    [ scraped     |-> Len(f.scrapedPosts),
      new         |-> Len(f.newPosts),
      stored      |-> Len(f.storedPosts),
      interesting |-> f.classifiedCount ]

\* The invocation's promise settles: how, and with the summary logged or not
Ends(f, how) ==
    [f EXCEPT !.pc = "done", !.ended = how,
              !.summary = IF how = "summary" THEN Some(Summary(f)) ELSE None]

\* A new invocation (the cron tick, the startup run or POST /api/jobs/trigger)
\* that starts when no other is in progress, in the lowest free frame
StartRun(r) ==
    /\ run[r].pc = "idle"
    /\ \A q \in Slots : q < r => run[q].pc # "idle"
    /\ \A q \in Slots : run[q].pc = "idle"
    /\ runsStarted < MaxRuns
    /\ runsStarted' = runsStarted + 1
    /\ SetFrame(r, [IdleFrame EXCEPT !.pc = "scrape", !.n = runsStarted + 1])
    /\ UNCHANGED <<world, store, build, put, putsDone, call, sched>>

\* Step 1: scrapeAllMoneyControl, and the return when nothing was scraped
Scrape(r) ==
    /\ run[r].pc = "scrape"
    /\ \E env \in ScrapeEnvs :
         LET scrapedPosts == scrapeAllMoneyControl(env)
             f == [run[r] EXCEPT !.scrapedPosts = scrapedPosts, !.i = 1,
                                 !.fetches = FetchesFrom(1, env)]
         IN  SetFrame(r, IF Len(scrapedPosts) = 0 THEN Ends(f, "no articles")
                         ELSE [f EXCEPT !.pc = "dedup"])
    /\ UNCHANGED <<world, store, runsStarted, build, put, putsDone, call, sched>>

\* A filter that keeps every scraped post
Filtered_PushAll(newPosts, k, exists) == Append(newPosts, k)

\* if (!exists) newPosts.push(post): posts are held by their index in
\* scrapedPosts
Filtered(newPosts, k, exists) == IF exists THEN newPosts ELSE Append(newPosts, k)

\* Step 2: one postExists call of the duplicate filter; a rejected query
\* leaves the loop and the function through the outer catch, which rethrows
Dedup(r) ==
    /\ run[r].pc = "dedup"
    /\ \E dbUp \in BOOLEAN :
         LET f == run[r]
             post == f.scrapedPosts[f.i]
             exists == postExists(post.source_id)
             g == [f EXCEPT !.newPosts = Filtered(@, f.i, exists),
                            !.log = Append(@, Event("postExists", f.i, TRUE,
                                                   IF exists THEN "present" ELSE "absent")),
                            !.i = @ + 1]
         IN  SetFrame(r,
                IF ~dbUp THEN Ends([f EXCEPT !.log = Append(@, Event("postExists", f.i,
                                                                    FALSE, ""))], "threw")
                ELSE IF f.i < Len(f.scrapedPosts) THEN g
                ELSE IF Len(g.newPosts) = 0 THEN Ends(g, "no new")
                ELSE [g EXCEPT !.pc = "embed", !.i = 1])
    /\ UNCHANGED <<world, store, runsStarted, build, put, putsDone, call, sched>>

\* The post of the current iteration of Step 3
NewPost(f) == f.scrapedPosts[f.newPosts[f.i]]

\* The end of one iteration of Step 3: the next post, or on to Step 4,
\* whose loop and the summary after it are passed when nothing was stored
NextNew(f) ==
    IF f.i < Len(f.newPosts) THEN [f EXCEPT !.pc = "embed", !.i = @ + 1]
    ELSE IF Len(f.storedPosts) = 0 THEN Ends(f, "summary")
    ELSE [f EXCEPT !.pc = "classify", !.i = 1]

\* A Step 3 that looks the post up again and drops it when it is stored by now
AfterEmbed_Recheck(f, res) ==
    IF postExists(NewPost(f).source_id) THEN NextNew(f)
    ELSE IF res.ok THEN [f EXCEPT !.pc = "transform"] ELSE [f EXCEPT !.pc = "catch"]

\* A Step 3 that drops the post when 3a throws
AfterEmbed_SkipItem(f, res) ==
    IF res.ok THEN [f EXCEPT !.pc = "transform"] ELSE NextNew(f)

\* Where the try block of Step 3 goes after 3a: on to 3b, or to the catch
AfterEmbed(f, res) ==
    IF res.ok THEN [f EXCEPT !.pc = "transform"] ELSE [f EXCEPT !.pc = "catch"]

\* 3a: generatePostEmbedding on the scraped post
Embed(r) ==
    /\ run[r].pc = "embed"
    /\ \E kind \in EmbedKinds :
         LET f == run[r]
             res == generatePostEmbedding(NewPost(f), kind)
         IN  SetFrame(r, AfterEmbed([f EXCEPT
                !.embedding_v2 = IF res.ok THEN Some(res.value) ELSE None,
                !.contentToStore = <<>>,
                !.log = Append(@, Event("embed", f.newPosts[f.i], res.ok, ""))], res))
    /\ UNCHANGED <<world, store, runsStarted, build, put, putsDone, call, sched>>

\* A 3b that loses the content when the transform throws
ContentToStore_Lost(post, res) == IF res.ok THEN res.value ELSE <<"Q&A">>

\* let contentToStore = post.content; try { contentToStore = await ... }
ContentToStore(post, res) == IF res.ok THEN res.value ELSE post.content

\* 3b: transformContentToQA in its own try: a throw keeps the raw content
Transform(r) ==
    /\ run[r].pc = "transform"
    /\ \E response \in TransformReplies(NewPost(run[r])) :
         LET f == run[r]
             res == transformContentToQA(NewPost(f), response)
         IN  SetFrame(r, [f EXCEPT
                !.contentToStore = ContentToStore(NewPost(f), res),
                !.log = Append(@, Event("transform", f.newPosts[f.i], res.ok, "")),
                !.pc = "insert"])
    /\ UNCHANGED <<world, store, runsStarted, build, put, putsDone, call, sched>>

\* A Step 3 that hands the post to Step 4 whether or not insertPost stored it
Pushed_EvenIfRejected(f, res) ==
    [f EXCEPT !.storedPosts = Append(@, IF res.ok THEN res.value
                                        ELSE [id |-> Len(store) + 1,
                                              title |-> NewPost(f).title,
                                              content |-> NewPost(f).content,
                                              url |-> NewPost(f).url]),
              !.storedFrom = Append(@, f.newPosts[f.i])]

\* storedPosts.push(storedPost) after an insertPost that returned
Pushed(f, res) ==
    IF res.ok THEN [f EXCEPT !.storedPosts = Append(@, res.value),
                             !.storedFrom = Append(@, f.newPosts[f.i])]
    ELSE f

\* Where Step 3 goes after an insertPost call: a throw in the try block goes
\* to the catch, a throw in the catch is logged, anything else ends the
\* iteration
AfterInsert(f, res, op) ==
    IF ~res.ok /\ op = "insertPost" THEN [f EXCEPT !.pc = "catch"]
    ELSE NextNew(f)

\* The end of an insertPost call of Step 3, in the try block or in the catch
Inserted(r, f, res, op) ==
    /\ store' = IF res.ok THEN Append(store, res.value) ELSE store
    /\ SetFrame(r, AfterInsert(
           Pushed([f EXCEPT !.log = Append(@, Event(op, f.newPosts[f.i], res.ok, ""))],
                  res),
           res, op))

\* A 3c that stores the post as not interesting
PostToStore_NotInteresting(post, contentToStore, embedding_v2) ==
    [ post EXCEPT !.content = contentToStore ]
    @@ [ embedding |-> None, embedding_v2 |-> embedding_v2, is_interesting |-> "false" ]

\* { ...postWithTransformedContent, embedding: null, embedding_v2,
\*   is_interesting: null }
PostToStore(post, contentToStore, embedding_v2) ==
    [ post EXCEPT !.content = contentToStore ]
    @@ [ embedding |-> None, embedding_v2 |-> embedding_v2, is_interesting |-> "null" ]

\* { ...post, embedding: null, embedding_v2: null, is_interesting: null }
PostToStoreInCatch(post, contentToStore, embedding_v2) ==
    post @@ [ embedding |-> None, embedding_v2 |-> None, is_interesting |-> "null" ]

\* 3c: insertPost of the post with the transformed content and the embedding
Insert(r) ==
    /\ run[r].pc = "insert"
    /\ \E dbUp \in BOOLEAN :
         LET f == run[r]
             postData == PostToStore(NewPost(f), f.contentToStore, f.embedding_v2)
         IN  Inserted(r, f, insertPost(postData, f.n, dbUp), "insertPost")
    /\ UNCHANGED <<world, runsStarted, build, put, putsDone, call, sched>>

\* The catch block of Step 3: insertPost of the scraped post as it is,
\* without embedding, in a try of its own
InsertInCatch(r) ==
    /\ run[r].pc = "catch"
    /\ \E dbUp \in BOOLEAN :
         LET f == run[r]
             postData == PostToStoreInCatch(NewPost(f), f.contentToStore, f.embedding_v2)
         IN  Inserted(r, f, insertPost(postData, f.n, dbUp), "insertPost (catch)")
    /\ UNCHANGED <<world, runsStarted, build, put, putsDone, call, sched>>

\* A Step 4 that ends at the first call that throws
NextStored_StopAtFailure(f) ==
    IF f.i < Len(f.storedPosts) /\ f.log[Len(f.log)].ok
    THEN [f EXCEPT !.pc = "classify", !.i = @ + 1]
    ELSE Ends(f, "summary")

\* The end of one iteration of Step 4: the next stored post or the summary
NextStored(f) ==
    IF f.i < Len(f.storedPosts) THEN [f EXCEPT !.pc = "classify", !.i = @ + 1]
    ELSE Ends(f, "summary")

\* Whether a reply makes the classification stage fail: an error, no
\* content, or content that is JSON neither as a whole nor from its first
\* "{" to its last "}"
StageFails(response) ==
    \/ response.threw
    \/ response.content = <<>>
    \/ /\ ~JSONParse(response.content).ok
       /\ \/ ~IsSome(JsonMatch(response.content))
          \/ ~JSONParse(Get(JsonMatch(response.content))).ok

\* A Step 4 that classifies the headline alone
ArticleOf_TitleOnly(post) == [title |-> post.title, content |-> post.title, url |-> post.url]

\* classifyArticle({ title: post.title, content: post.content, url: post.url })
ArticleOf(post) == [title |-> post.title, content |-> post.content, url |-> post.url]

\* Step 4: classifyArticle on the row insertPost returned
Classify(r) ==
    /\ run[r].pc = "classify"
    /\ \E response \in ClassifyReplies :
         LET f == run[r]
             post == f.storedPosts[f.i]
             classification == classifyArticle(ArticleOf(post), response)
         IN  SetFrame(r, [f EXCEPT
                !.classification = Some(classification),
                !.articles = Append(@, ArticleOf(post)),
                !.log = Append(@, Event("classifyArticle", f.storedFrom[f.i],
                                        ~StageFails(response),
                                        classification.is_interesting)),
                !.pc = "update"])
    /\ UNCHANGED <<world, store, runsStarted, build, put, putsDone, call, sched>>

\* Step 4: updatePostClassification with the classification; a throw is
\* caught and logged
Update(r) ==
    /\ run[r].pc = "update"
    /\ \E dbUp \in BOOLEAN :
         LET f == run[r]
             post == f.storedPosts[f.i]
             classification == Get(f.classification)
             res == updatePostClassification(post.id, classification.is_interesting,
                        Some([ reasoning      |-> classification.reasoning,
                               content_pillar |-> classification.content_pillar,
                               policy_anchor  |-> classification.policy_anchor ]),
                        dbUp)
         IN  /\ store' = StoreAfterUpdate(res)
             /\ SetFrame(r, NextStored([f EXCEPT
                    !.classifiedCount =
                        IF res.ok /\ classification.is_interesting = "true"
                        THEN @ + 1 ELSE @,
                    !.classification = None,
                    !.log = Append(@, Event("updatePostClassification",
                                            f.storedFrom[f.i], res.ok, ""))]))
    /\ UNCHANGED <<world, runsStarted, build, put, putsDone, call, sched>>

\* The invocation is over: its frame is gone, the caller goes on
EndRun(r) ==
    /\ run[r].pc = "done"
    /\ SetFrame(r, IdleFrame)
    /\ UNCHANGED <<world, store, runsStarted, build, put, putsDone, call, sched>>

(***************************************************************************)
(* PUT /api/posts/:id (routes/posts.js): getPostById, then                 *)
(* updatePostClassification with the body's values or the row just read.   *)
(***************************************************************************)
\* The handler up to its first query's result; postId is
\* parseInt(req.params.id), None when that is NaN
PutRead(postId, body) ==
    /\ put.pc = "idle"
    /\ putsDone < MaxPuts
    /\ IF ~IsSome(postId) THEN
           /\ put' = [IdlePut EXCEPT !.status = 400]
           /\ putsDone' = putsDone + 1
       ELSE \E dbUp \in BOOLEAN :
         LET id == Get(postId)
         IN  IF ~dbUp THEN
                 /\ put' = [IdlePut EXCEPT !.status = 500]
                 /\ putsDone' = putsDone + 1
             ELSE IF id \notin Ids THEN
                 /\ put' = [IdlePut EXCEPT !.status = 404]
                 /\ putsDone' = putsDone + 1
             ELSE
                 /\ put' = [pc |-> "update", id |-> id, body |-> Some(body),
                            existing |-> Some(store[id]), status |-> 0]
                 /\ putsDone' = putsDone
    /\ UNCHANGED <<world, store, run, runsStarted, build, call, sched>>

\* The handler from there: the update and the response
PutWrite ==
    /\ put.pc = "update"
    /\ \E dbUp \in BOOLEAN :
         LET body == Get(put.body)
             existing == Get(put.existing)
             isInteresting == IF body.is_interesting # "undefined"
                              THEN body.is_interesting ELSE existing.is_interesting
             metadataToMerge == IF IsSome(body.metadata) THEN body.metadata
                                ELSE existing.metadata
             res == updatePostClassification(put.id, isInteresting, metadataToMerge, dbUp)
         IN  /\ store' = StoreAfterUpdate(res)
             /\ put' = [IdlePut EXCEPT !.status = IF ~res.ok THEN 500
                                                  ELSE IF res.value = <<>> THEN 404
                                                  ELSE 200]
    /\ putsDone' = putsDone + 1
    /\ UNCHANGED <<world, run, runsStarted, build, call, sched>>

\* The pipeline alone: invocations one after another
Next ==
    \/ \E r \in Slots : StartRun(r)
    \/ \E r \in Slots : Scrape(r)
    \/ \E r \in Slots : Dedup(r)
    \/ \E r \in Slots : Embed(r)
    \/ \E r \in Slots : Transform(r)
    \/ \E r \in Slots : Insert(r)
    \/ \E r \in Slots : InsertInCatch(r)
    \/ \E r \in Slots : Classify(r)
    \/ \E r \in Slots : Update(r)
    \/ \E r \in Slots : EndRun(r)

Spec == Init /\ [][Next]_vars

\* The pipeline and the HTTP API's PUT requests, on a site with one article
\* and with either copy of models/post.js
SiteOne ==
    [ listings |-> << <<>>, <<Entry(<<"B">>, LinkB, FALSE)>>, <<>> >>,
      articles |-> [ l \in {NormalizeLink(LinkB)} |->
                       Page(<<>>, "null", <<"Updated", ":", "D", "IST">>) ] ]

InitApi ==
    /\ world = SiteOne
    /\ store = <<>>
    /\ run = [r \in Slots |-> IdleFrame]
    /\ runsStarted = 0
    /\ build \in {"models/post.js", "models/post.js (copy)"}
    /\ put = IdlePut
    /\ putsDone = 0
    /\ sched = NoSched
    /\ call = NoCall

NextApi ==
    \/ Next
    \/ \E postId \in {None} \cup {Some(id) : id \in 1..(Len(store) + 1)},
          body \in PutBodies : PutRead(postId, body)
    \/ PutWrite

SpecApi == InitApi /\ [][NextApi]_vars

\* The pipeline on a site whose second listing holds a stored article, a
\* premium one and a new one, started with a table that earlier invocations
\* filled
LinkC == <<"", "news", "business", "personal-finance", "c-4.html">>

SiteTwo ==
    [ listings |-> << <<Entry(<<"B">>, LinkB, FALSE)>>,
                      <<Entry(<<"A">>, LinkA, FALSE), Entry(<<"P">>, LinkP, TRUE),
                        Entry(<<"C">>, LinkC, FALSE)>>,
                      <<>> >>,
      articles |-> [ l \in {NormalizeLink(LinkA), NormalizeLink(LinkB),
                            NormalizeLink(LinkC), NormalizeLink(LinkP)} |->
                       IF l = NormalizeLink(LinkA)
                       THEN Page(<<"a1", "a2">>, "Author", <<"D">>)
                       ELSE IF l = NormalizeLink(LinkB)
                       THEN Page(<<>>, "null", <<"Updated", ":", "D", "IST">>)
                       ELSE IF l = NormalizeLink(LinkC)
                       THEN Page(<<"c1">>, "null", <<"D">>)
                       ELSE Page(<<"p1">>, "null", <<>>) ] ]

\* The row an earlier invocation left for entry j of listing s: stored by
\* Step 3c with the transformed content and the embedding
StoredBefore(s, j, id) ==
    LET link == NormalizeLink(SiteTwo.listings[s][j].href)
        post == PostData(MONEYCONTROL_URLS[s], SiteTwo.listings[s][j].title, link,
                         SiteTwo.articles[link])
    IN  RowWith(PostToStore(post, QA(post.content),
                            Some(Vector(CombinedText(post), EmbeddingDim))),
                id, 0)

InitFeed ==
    /\ world = SiteTwo
    /\ store = <<StoredBefore(2, 1, 1), StoredBefore(1, 1, 2)>>
    /\ run = [r \in Slots |-> IdleFrame]
    /\ runsStarted = 0
    /\ build = "models/post.js"
    /\ put = IdlePut
    /\ putsDone = 0
    /\ sched = NoSched
    /\ call = NoCall

SpecFeed == InitFeed /\ [][Next]_vars

\* The pipeline on a site whose first listing has more entries than
\* maxArticlesPerURL, started with a table that holds all but one of its
\* articles
SiteLong ==
    [ listings |-> << <<Entry(<<"C">>, LinkC, FALSE), Entry(<<"A">>, LinkA, FALSE),
                        Entry(<<"B">>, LinkB, FALSE), Entry(<<"A">>, LinkA, FALSE),
                        Entry(<<"B">>, LinkB, FALSE), Entry(<<"P">>, LinkP, TRUE),
                        Entry(<<"C">>, LinkC, FALSE)>>,
                      <<>>,
                      <<>> >>,
      articles |-> SiteTwo.articles ]

InitCap ==
    /\ world = SiteLong
    /\ store = <<StoredBefore(2, 1, 1), StoredBefore(1, 1, 2)>>
    /\ run = [r \in Slots |-> IdleFrame]
    /\ runsStarted = 0
    /\ build = "models/post.js"
    /\ put = IdlePut
    /\ putsDone = 0
    /\ sched = NoSched
    /\ call = NoCall

SpecCap == InitCap /\ [][Next]_vars

\* Invocations that overlap: the callback of cron.schedule, the startup run
\* and POST /api/jobs/trigger all call runScrapingAndClassificationJob with
\* no check for an invocation in progress
StartOverlapping(r) ==
    /\ run[r].pc = "idle"
    /\ \E q \in Slots : run[q].pc # "idle"
    /\ runsStarted < MaxRuns
    /\ runsStarted' = runsStarted + 1
    /\ SetFrame(r, [IdleFrame EXCEPT !.pc = "scrape", !.n = runsStarted + 1])
    /\ UNCHANGED <<world, store, build, put, putsDone, call, sched>>

InitOverlap ==
    /\ world = SiteOne
    /\ store = <<>>
    /\ run = [r \in Slots |-> IdleFrame]
    /\ runsStarted = 0
    /\ build = "models/post.js"
    /\ put = IdlePut
    /\ putsDone = 0
    /\ sched = NoSched
    /\ call = NoCall

NextOverlap ==
    \/ Next
    \/ \E r \in Slots : StartOverlapping(r)

SpecOverlap == InitOverlap /\ [][NextOverlap]_vars

\* ollama.embed and ollama.chat are awaited with no timeout and no abort
\* signal (the axios.get calls of the scraper have one): the provider may
\* never answer, and then the promise never settles and the invocation stays
\* at its await
AwaitForever(r) ==
    /\ run[r].pc \in {"embed", "transform", "classify"}
    /\ SetFrame(r, [run[r] EXCEPT !.pc = "awaiting"])
    /\ UNCHANGED <<world, store, runsStarted, build, put, putsDone, call, sched>>

InitLive ==
    /\ world = SiteOne
    /\ store = <<>>
    /\ run = [r \in Slots |-> IdleFrame]
    /\ runsStarted = 0
    /\ build = "models/post.js"
    /\ put = IdlePut
    /\ putsDone = 0
    /\ sched = NoSched
    /\ call = NoCall

NextLive ==
    \/ Next
    \/ \E r \in Slots : AwaitForever(r)

\* The event loop resumes an invocation whenever the call it awaits has
\* settled: a step that can be taken is taken
SpecLive == InitLive /\ [][NextLive]_vars /\ WF_vars(NextLive)

(***************************************************************************)
(* Functions of the program called on their own: the argument is drawn at  *)
(* the start, the one step is the call's return.                           *)
(***************************************************************************)
MaxReplyLen == 4

\* What a reply of the classifier's LLM is made of
ReplyTokens ==
    { "{", "}", "text", "null", "42", "is_interesting=true", "is_interesting='true'",
      "is_interesting=false", "is_interesting='false'" }

\* response?.message?.content of every length up to n
Contents(n) == UNION {[1..m -> ReplyTokens] : m \in 0..n}

\* What ollama.chat can do: throw, or answer with a content of up to n tokens
Responses(n) == {Threw} \cup {Reply(c) : c \in Contents(n)}

Pending(fn, args) == {[fn |-> fn, arg |-> a, result |-> None] : a \in args}

\* The article of the calls of classifyArticle
TestArticle == [title |-> <<"B">>, content |-> <<"b1">>, url |-> NormalizeLink(LinkB)]

MaxPathLen == 2

\* The pieces of an article link's path
PathPieces == {"news", "politics", "a-1.html"}

\* The absolute links with a path of up to n pieces
Links(n) == {baseUrl \o path : path \in UNION {[1..m -> PathPieces] : m \in 1..n}}

\* The table the calls of models/post.js find: two rows of earlier runs
StoredRows == <<StoredBefore(2, 1, 1), StoredBefore(1, 1, 2)>>

\* The arguments of updatePostClassification: an id in the table or the one
\* after the last, a label, the data (null, empty, classification members,
\* another member, an array), and whether the query reaches the database
UpdateArgs ==
    [ postId : 1..(Len(StoredRows) + 1),
      isInteresting : {"true", "false", "null"},
      classificationData :
          { None, Some(EmptyObject), Some([note |-> "'n'"]), Some(Array(<<"1">>)),
            Some([reasoning |-> "'r'", content_pillar |-> "null",
                  policy_anchor |-> "null"]) },
      dbUp : BOOLEAN ]

MaxDateLen == 3

\* What a published-time text is made of: a date-time, the labels, the time
\* zone, and text that is none of these
DateTokens == {"D", "Updated", "Published", ":", "IST", "x"}

\* The published-time texts of up to n tokens
DateTexts(n) == UNION {[1..m -> DateTokens] : m \in 0..n}

\* Replies that may also hold a JSON string or a JSON array, of up to n tokens
ValueReplies(n) ==
    {Threw} \cup {Reply(c) : c \in UNION {[1..m -> ReplyTokens \cup {"'s'", "[]"}] :
                                             m \in 0..n}}

\* The calls made, with replies, date texts and link paths of the given
\* lengths
PendingCalls(replyLen, dateLen, pathLen) ==
    Pending("classifyArticle", Responses(replyLen))
      \cup Pending("Step 4", ValueReplies(replyLen - 1))
      \cup Pending("parseMoneycontrolDate", DateTexts(dateLen))
      \cup Pending("source_id", Links(pathLen) \X Links(pathLen))
      \cup Pending("updatePostClassification", UpdateArgs)

InitCalls ==
    /\ world = SiteTwo
    /\ store = StoredRows
    /\ run = [r \in Slots |-> IdleFrame]
    /\ runsStarted = 0
    /\ put = IdlePut
    /\ putsDone = 0
    /\ sched = NoSched
    /\ call \in PendingCalls(MaxReplyLen, MaxDateLen, MaxPathLen)
    /\ build \in IF call.fn = "updatePostClassification"
                 THEN {"models/post.js", "models/post.js (copy)"}
                 ELSE {"models/post.js"}

Returns(result) ==
    /\ call.result = None
    /\ call' = [call EXCEPT !.result = Some(result)]
    /\ UNCHANGED <<world, store, run, runsStarted, build, put, putsDone, sched>>

\* classifyArticle(article) with the provider answering call.arg
ReturnClassifyArticle ==
    /\ call.fn = "classifyArticle"
    /\ Returns(classifyArticle(TestArticle, call.arg))

\* The record scrapeMoneycontrolFeed builds for an entry with the link
PostOf(link) ==
    PostData(MONEYCONTROL_URLS[1], <<"T">>, link, Page(<<"t1">>, "null", <<"D">>))

\* postData.source_id for two entries, each with its own link
ReturnSourceId ==
    /\ call.fn = "source_id"
    /\ Returns(<<PostOf(call.arg[1]).source_id, PostOf(call.arg[2]).source_id>>)

\* updatePostClassification(postId, isInteresting, classificationData) of
\* the copy of models/post.js in use
ReturnUpdatePostClassification ==
    /\ call.fn = "updatePostClassification"
    /\ call.result = None
    /\ LET a == call.arg
           res == updatePostClassification(a.postId, a.isInteresting,
                                           a.classificationData, a.dbUp)
       IN  /\ store' = StoreAfterUpdate(res)
           /\ call' = [call EXCEPT !.result = Some(res)]
    /\ UNCHANGED <<world, run, runsStarted, build, put, putsDone, sched>>

\* parseMoneycontrolDate on a published-time text, and the published_at of
\* the record scraped from a page that carries the text
ReturnParseMoneycontrolDate ==
    /\ call.fn = "parseMoneycontrolDate"
    /\ Returns([ parsed       |-> parseMoneycontrolDate(call.arg),
                 published_at |->
                     PostData(MONEYCONTROL_URLS[1], <<"T">>, NormalizeLink(LinkA),
                              Page(<<"t1">>, "null", call.arg)).published_at ])

\* One iteration of Step 4 on the first row of the table, the provider
\* answering call.arg: classifyArticle, then updatePostClassification with
\* the label and the three members it returned
ReturnStep4 ==
    /\ call.fn = "Step 4"
    /\ call.result = None
    /\ \E dbUp \in BOOLEAN :
         LET post == store[1]
             classification == classifyArticle(ArticleOf(post), call.arg)
             res == updatePostClassification(post.id, classification.is_interesting,
                        Some([ reasoning      |-> classification.reasoning,
                               content_pillar |-> classification.content_pillar,
                               policy_anchor  |-> classification.policy_anchor ]),
                        dbUp)
         IN  /\ store' = StoreAfterUpdate(res)
             /\ call' = [call EXCEPT !.result =
                             Some([classification |-> classification, updated |-> res.ok])]
    /\ UNCHANGED <<world, run, runsStarted, build, put, putsDone, sched>>

NextCalls ==
    \/ ReturnStep4
    \/ ReturnClassifyArticle
    \/ ReturnParseMoneycontrolDate
    \/ ReturnSourceId
    \/ ReturnUpdatePostClassification

SpecCalls == InitCalls /\ [][NextCalls]_vars

(***************************************************************************)
(* startCronJob (services/cron.js) and POST /api/jobs/trigger (index.js).  *)
(* A cron expression is its minute and hour fields (the other three are    *)
(* "*" in every schedule here); a field is a step ("*" has step 1) or a    *)
(* single value.  The clock counts the minutes since midnight.             *)
(***************************************************************************)
Every(n) == [kind |-> "step", n |-> n]
At(n) == [kind |-> "at", n |-> n]

\* Whether a field of a cron expression matches a value of the clock
FieldMatches(field, v) ==
    IF field.kind = "step" THEN v % field.n = 0 ELSE v = field.n

MinutesPerHour == 60
HoursPerDay == 24

\* Whether the task's expression matches the minute now
Matches(schedule, now) ==
    /\ FieldMatches(schedule.minute, now % MinutesPerHour)
    /\ FieldMatches(schedule.hour, (now \div MinutesPerHour) % HoursPerDay)

\* '* */2 * * *'
DefaultSchedule == [minute |-> Every(1), hour |-> Every(2)]

\* process.env: CRON_SCHEDULE unset or '0 */6 * * *', the two flags unset,
\* 'true' or 'false'
SchedEnvs ==
    [ CRON_SCHEDULE : {None, Some([minute |-> At(0), hour |-> Every(6)])},
      ENABLE_CRON : {"undefined", "true", "false"},
      RUN_ON_STARTUP : {"undefined", "true", "false"} ]

\* The minute the server starts listening
StartTimes == {0, 119, 359}

MaxTicks == 3

\* A site whose listings hold nothing
SiteNone == [ listings |-> << <<>>, <<>>, <<>> >>, articles |-> <<>> ]

InitCron ==
    /\ world = SiteNone
    /\ store = <<>>
    /\ run = [r \in Slots |-> IdleFrame]
    /\ runsStarted = 0
    /\ build = "models/post.js"
    /\ put = IdlePut
    /\ putsDone = 0
    /\ call = NoCall
    /\ sched \in { [pc |-> "boot", env |-> e, task |-> None, now |-> t, ticks |-> 0,
                    starts |-> <<>>] : e \in SchedEnvs, t \in StartTimes }

\* A frame no invocation uses
FreeSlot(r) == run[r].pc = "idle" /\ \A q \in Slots : q < r => run[q].pc # "idle"

\* runScrapingAndClassificationJob() is called: a new invocation, whatever
\* the others do
Invoked(r) ==
    /\ FreeSlot(r)
    /\ runsStarted < MaxRuns
    /\ runsStarted' = runsStarted + 1
    /\ SetFrame(r, [IdleFrame EXCEPT !.pc = "scrape", !.n = runsStarted + 1])

\* The scheduler's record of an invocation: the caller, the minute and
\* whether another invocation was in progress
Started(by, now) ==
    [by |-> by, at |-> now, busy |-> \E q \in Slots : run[q].pc # "idle"]

\* const schedule = process.env.CRON_SCHEDULE || '* */2 * * *'
ScheduleOf(env) ==
    IF IsSome(env.CRON_SCHEDULE) THEN Get(env.CRON_SCHEDULE) ELSE DefaultSchedule

\* const enabled = process.env.ENABLE_CRON !== 'false'
Enabled(env) == env.ENABLE_CRON # "false"

\* startCronJob, called once the server listens
StartCronJob ==
    /\ sched.pc = "boot"
    /\ IF ~Enabled(sched.env)
       THEN /\ sched' = [sched EXCEPT !.pc = "up"]
            /\ UNCHANGED <<run, runsStarted>>
       ELSE IF sched.env.RUN_ON_STARTUP = "true"
       THEN /\ \E r \in Slots : Invoked(r)
            /\ sched' = [sched EXCEPT !.pc = "up",
                                      !.task = Some(ScheduleOf(sched.env)),
                                      !.starts = Append(@, Started("startup", sched.now))]
       ELSE /\ sched' = [sched EXCEPT !.pc = "up",
                                      !.task = Some(ScheduleOf(sched.env))]
            /\ UNCHANGED <<run, runsStarted>>
    /\ UNCHANGED <<world, store, build, put, putsDone, call>>

\* A task that skips a minute while an earlier invocation is in progress
Fires_UnlessBusy(task, now, busy) ==
    IsSome(task) /\ Matches(Get(task), now) /\ ~busy

\* Whether the registered task calls its callback at a minute: the callback
\* awaits the run but nothing looks at a run in progress
Fires(task, now, busy) == IsSome(task) /\ Matches(Get(task), now)

\* A minute passes; the task registered with cron.schedule, if any, runs its
\* callback when its expression matches the new minute
Tick ==
    /\ sched.pc = "up"
    /\ sched.ticks < MaxTicks
    /\ LET now == sched.now + 1
       IN  IF Fires(sched.task, now, \E q \in Slots : run[q].pc # "idle")
           THEN /\ \E r \in Slots : Invoked(r)
                /\ sched' = [sched EXCEPT !.now = now, !.ticks = @ + 1,
                                          !.starts = Append(@, Started("tick", now))]
           ELSE /\ sched' = [sched EXCEPT !.now = now, !.ticks = @ + 1]
                /\ UNCHANGED <<run, runsStarted>>
    /\ UNCHANGED <<world, store, build, put, putsDone, call>>

\* POST /api/jobs/trigger: triggerJob()
TriggerJob ==
    /\ sched.pc = "up"
    /\ \E r \in Slots : Invoked(r)
    /\ sched' = [sched EXCEPT !.starts = Append(@, Started("manual", sched.now))]
    /\ UNCHANGED <<world, store, build, put, putsDone, call>>

NextCron ==
    \/ StartCronJob
    \/ Tick
    \/ TriggerJob
    \/ \E r \in Slots : Scrape(r)
    \/ \E r \in Slots : EndRun(r)

SpecCron == InitCron /\ [][NextCron]_vars

(***************************************************************************)
(* GET /api/posts and GET /api/posts/stats (routes/posts.js) with getPosts *)
(* and getPostCount (models/post.js), called on tables of classified and   *)
(* unclassified rows.                                                      *)
(***************************************************************************)
\* Parse is_interesting as boolean: the query parameter, "undefined" when the
\* request carries none
isInterestingFilter(is_interesting) ==
    IF is_interesting = "true" THEN "true"
    ELSE IF is_interesting = "false" THEN "false"
    ELSE IF is_interesting \in {"null", ""} THEN "null"
    ELSE "undefined"

\* The WHERE clause of getPosts and getPostCount: 'AND is_interesting = $n'
\* is added if (is_interesting !== undefined && is_interesting !== null)
Selected(filters, row) ==
    filters.is_interesting \notin {"undefined", "null"} =>
        row.is_interesting = filters.is_interesting

\* getPostCount(filters): SELECT COUNT(*)
getPostCount(filters) == Cardinality({id \in Ids : Selected(filters, store[id])})

\* getPosts(filters): the selected rows (the table holds fewer than the limit)
getPosts(filters) == SelectSeq(store, LAMBDA row : Selected(filters, row))

\* GET /api/posts/stats: the four counts of the response
Stats ==
    [ total          |-> getPostCount([is_interesting |-> "undefined"]),
      interesting    |-> getPostCount([is_interesting |-> "true"]),
      notInteresting |-> getPostCount([is_interesting |-> "false"]),
      unclassified   |-> getPostCount([is_interesting |-> "null"]) ]

\* GET /api/posts?is_interesting=...: data and pagination.total
Listing(is_interesting) ==
    LET filters == [is_interesting |-> isInterestingFilter(is_interesting)]
    IN  [data |-> getPosts(filters), total |-> getPostCount(filters)]

MaxRows == 3

\* A row with a label
Labelled(id, label) ==
    [StoredBefore(2, 1, id) EXCEPT !.source_id = "moneycontrol_" \o ToString(id),
                                   !.is_interesting = label]

\* The tables of up to n rows, each row unclassified or classified
Tables(n) ==
    UNION { { [id \in 1..m |-> Labelled(id, labels[id])] :
                labels \in [1..m -> {"null", "true", "false"}] } : m \in 0..n }

\* The values of the is_interesting query parameter
QueryValues == {"undefined", "true", "false", "null", "", "x"}

\* The requests made
GetRequests ==
    Pending("GET /api/posts/stats", {""}) \cup Pending("GET /api/posts", QueryValues)

InitQuery ==
    /\ world = SiteTwo
    /\ store \in Tables(MaxRows)
    /\ run = [r \in Slots |-> IdleFrame]
    /\ runsStarted = 0
    /\ build = "models/post.js"
    /\ put = IdlePut
    /\ putsDone = 0
    /\ sched = NoSched
    /\ call \in GetRequests

\* res.json of GET /api/posts/stats
RespondStats ==
    /\ call.fn = "GET /api/posts/stats"
    /\ Returns(Stats)

\* res.json of GET /api/posts
RespondListing ==
    /\ call.fn = "GET /api/posts"
    /\ Returns(Listing(call.arg))

NextQuery ==
    \/ RespondStats
    \/ RespondListing

SpecQuery == InitQuery /\ [][NextQuery]_vars

(***************************************************************************)
(* Vocabulary of the properties: a run's log, read per scraped item.       *)
(***************************************************************************)
Inserts == {"insertPost", "insertPost (catch)"}

Pos(f) == 1..Len(f.log)

\* The positions in f's log of the calls op made for item k
Calls(f, ops, k) == {j \in Pos(f) : f.log[j].op \in ops /\ f.log[j].k = k}

\* Whether a call of ops for item k returned before position j of the log
ReturnedBefore(f, ops, k, j) == \E h \in Calls(f, ops, k) : h < j /\ f.log[h].ok

\* Item k of run f was stored by that run; the row as it is in the table now
StoredByRun(f, k) == \E h \in 1..Len(f.storedFrom) : f.storedFrom[h] = k

RowOf(f, k) ==
    store[f.storedPosts[CHOOSE h \in 1..Len(f.storedFrom) : f.storedFrom[h] = k].id]

\* Step 3 is over for the item at position h of newPosts
Enriched(f, h) ==
    \/ f.pc \in {"classify", "update"}
    \/ f.pc = "done" /\ f.ended = "summary"
    \/ f.pc \in {"embed", "transform", "insert", "catch"} /\ h < f.i

(***************************************************************************)
(* C1.  Two invocations in sequence on the same listing store no           *)
(* duplicate: no two rows share a source_id; in the later invocation a     *)
(* candidate URL that an earlier invocation stored has the source_id it    *)
(* was stored under, its postExists call answers "present", and no         *)
(* insertPost call is made for it.                                         *)
(***************************************************************************)
StoredEarlier(f, k) ==
    {id \in Ids : store[id].by < f.n /\ store[id].url = f.scrapedPosts[k].url}

C1_IdempotentDedup ==
    /\ \A a, b \in Ids : store[a].source_id = store[b].source_id => a = b
    /\ \A r \in Slots : \A j \in Pos(run[r]) :
         LET f == run[r]
             e == f.log[j]
         IN  \A id \in StoredEarlier(f, e.k) :
               /\ store[id].source_id = f.scrapedPosts[e.k].source_id
               /\ e.op = "postExists" /\ e.ok => e.val = "present"
               /\ e.op \notin Inserts

C1_Witness ==
    \E r \in Slots :
      /\ run[r].n = 2 /\ run[r].pc = "done" /\ run[r].ended = "summary"
      /\ \E j \in Pos(run[r]) : /\ run[r].log[j].op = "postExists"
                                /\ run[r].log[j].val = "present"
                                /\ StoredEarlier(run[r], run[r].log[j].k) # {}

(***************************************************************************)
(* C2.  If the embedding of a new item fails, the transform stage is still *)
(* attempted for the item before it is stored, and the item is stored with *)
(* a null embedding and with the content it would have had otherwise (the  *)
(* transform's output when the transform succeeds).                        *)
(***************************************************************************)
C2_EmbeddingFailureIsolated ==
    \A r \in Slots : \A j \in Pos(run[r]) :
      LET f == run[r]
          k == f.log[j].k
      IN  (/\ f.log[j].op \in Inserts
           /\ \E h \in Calls(f, {"embed"}, k) : ~f.log[h].ok)
          => /\ \E h \in Calls(f, {"transform"}, k) : h < j
             /\ f.log[j].ok =>
                  /\ RowOf(f, k).embedding_v2 = None
                  /\ \A h \in Calls(f, {"transform"}, k) :
                       f.log[h].ok => RowOf(f, k).content = QA(f.scrapedPosts[k].content)

(***************************************************************************)
(* C3.  The embedding of an item is requested before its transform, on the *)
(* raw text: every stored embedding is the vector of the row's title and   *)
(* raw content, and the stored content is the transform's output whenever  *)
(* the item's transform succeeded.                                         *)
(***************************************************************************)
RawContent(row) ==
    LET page == world.articles[row.url]
    IN  IF page.full_body = <<>> THEN row.title ELSE page.full_body

C3_EmbeddingFromRawContent ==
    /\ \A id \in Ids :
         IsSome(store[id].embedding_v2) =>
           Get(store[id].embedding_v2).of
             = store[id].title \o <<"\n\n">> \o RawContent(store[id])
    /\ \A r \in Slots : \A j \in Pos(run[r]) :
         LET f == run[r]
             k == f.log[j].k
         IN  f.log[j].op = "transform" =>
               /\ \E h \in Calls(f, {"embed"}, k) : h < j
               /\ f.log[j].ok /\ StoredByRun(f, k) =>
                    RowOf(f, k).content = QA(RawContent(RowOf(f, k)))

(***************************************************************************)
(* C4.  When the classification stage fails for a stored item (provider    *)
(* error, empty reply, reply that is no JSON), classifyArticle returns the *)
(* label "null" (unknown) with a reasoning that reports the failure, and   *)
(* the item's row has is_interesting unknown, never false.                 *)
(***************************************************************************)
FailureReasons ==
    { "Classification failed: " \o m :
        m \in { "provider error", "No response content from Ollama",
                "Could not parse Ollama response as JSON", "Unexpected token",
                "Unexpected end of JSON input", "Cannot read properties of null" } }

C4_FailedClassificationUnknown ==
    \A r \in Slots : \A j \in Pos(run[r]) :
      LET f == run[r]
          e == f.log[j]
      IN  e.op = "classifyArticle" /\ ~e.ok =>
            /\ e.val = "null"
            /\ RowOf(f, e.k).is_interesting = "null"
            /\ (f.pc = "update" /\ j = Len(f.log)) =>
                 /\ Get(f.classification).is_interesting = "null"
                 /\ Get(f.classification).reasoning \in FailureReasons

C4_Witness ==
    \E r \in Slots : \E j \in Pos(run[r]) :
      /\ run[r].log[j].op = "classifyArticle" /\ ~run[r].log[j].ok
      /\ \E h \in Calls(run[r], {"updatePostClassification"}, run[r].log[j].k) :
           h > j /\ run[r].log[h].ok
      /\ RowOf(run[r], run[r].log[j].k).is_interesting = "null"

(***************************************************************************)
(* C5.  Classification updates, by the pipeline or by PUT /api/posts/:id,  *)
(* never shrink a row's metadata key set: every step keeps every key the   *)
(* row has, so the keys written at insert (category, raw_published_text,   *)
(* scraped_from, scraped_at) stay, next to the classification keys.        *)
(***************************************************************************)
InsertKeys == {"category", "raw_published_text", "scraped_from", "scraped_at"}

Keys(row) ==
    IF IsSome(row.metadata) /\ ~IsArray(Get(row.metadata))
    THEN DOMAIN Get(row.metadata) ELSE {}

C5_MetadataMergedNotReplaced ==
    /\ [](\A id \in Ids : InsertKeys \subseteq Keys(store[id]))
    /\ [][\A id \in Ids : Keys(store[id]) \subseteq Keys(store'[id])]_vars

Rank(op) ==
    CASE op = "postExists" -> 0
      [] op = "embed" -> 1
      [] op = "transform" -> 2
      [] op = "insertPost" -> 3
      [] op = "insertPost (catch)" -> 4
      [] op = "classifyArticle" -> 5
      [] OTHER -> 6

C7_InsertAlwaysAttempted ==
    \A r \in Slots :
      LET f == run[r]
      IN  /\ \A h \in 1..Len(f.newPosts) :
               Enriched(f, h) => Calls(f, Inserts, f.newPosts[h]) # {}
          /\ (f.pc = "done" /\ \E j \in Pos(f) : f.log[j].op = "embed")
               => f.ended = "summary"

C7_Witness ==
    \E r \in Slots :
      LET f == run[r]
      IN  /\ f.pc = "done" /\ Len(f.newPosts) >= 2
          /\ \E h \in Calls(f, {"embed"}, f.newPosts[1]) : ~f.log[h].ok
          /\ \E h \in Calls(f, {"insertPost (catch)"}, f.newPosts[1]) : ~f.log[h].ok
          /\ \E h \in Calls(f, {"transform"}, f.newPosts[2]) : ~f.log[h].ok
          /\ \E h \in Calls(f, Inserts, f.newPosts[2]) : f.log[h].ok

(***************************************************************************)
(* C8.  Per item the table is accessed by one postExists call, then at     *)
(* most one insertPost call, then at most one updatePostClassification     *)
(* call; an insertPost call that failed is not followed by another one     *)
(* for the item.                                                           *)
(***************************************************************************)
C8_OneInsertPerItem ==
    \A r \in Slots : \A k \in 1..Len(run[r].scrapedPosts) :
      LET f == run[r]
      IN  /\ Cardinality(Calls(f, {"postExists"}, k)) <= 1
          /\ Cardinality(Calls(f, Inserts, k)) <= 1
          /\ Cardinality(Calls(f, {"updatePostClassification"}, k)) <= 1
          /\ \A j \in Calls(f, Inserts, k) :
               /\ \E h \in Calls(f, {"postExists"}, k) : h < j
               /\ ~f.log[j].ok => \A h \in Calls(f, Inserts, k) : h <= j
          /\ \A j \in Calls(f, {"updatePostClassification"}, k) :
               ReturnedBefore(f, Inserts, k, j)

(***************************************************************************)
(* C9.  A row a run stored for an item carries the embedding the run       *)
(* computed for the item, when that succeeded, and the transform's output  *)
(* as content, when the transform succeeded, also when the first insert    *)
(* attempt failed.                                                         *)
(***************************************************************************)
C9_ComputedWorkKept ==
    \A r \in Slots : \A k \in 1..Len(run[r].scrapedPosts) :
      LET f == run[r]
      IN  StoredByRun(f, k) =>
            /\ (\E h \in Calls(f, {"embed"}, k) : f.log[h].ok) =>
                 /\ IsSome(RowOf(f, k).embedding_v2)
                 /\ Get(RowOf(f, k).embedding_v2).of = CombinedText(f.scrapedPosts[k])
            /\ (\E h \in Calls(f, {"transform"}, k) : f.log[h].ok) =>
                 RowOf(f, k).content = QA(f.scrapedPosts[k].content)

(***************************************************************************)
(* C10.  postExists is called once per scraped candidate, and an item gets *)
(* an embedding, transform or classification call only after its           *)
(* postExists call of that run answered "absent"; an item found present    *)
(* gets none.                                                              *)
(***************************************************************************)
Enrichments == {"embed", "transform", "classifyArticle"}

C10_DedupBeforeEnrichment ==
    \A r \in Slots :
      LET f == run[r]
      IN  /\ \A k \in 1..Len(f.scrapedPosts) :
               /\ Cardinality(Calls(f, {"postExists"}, k)) <= 1
               /\ (f.pc \notin {"dedup", "done"} \/ f.ended \in {"no new", "summary"})
                    => Cardinality(Calls(f, {"postExists"}, k)) = 1
          /\ \A j \in Pos(f) :
               f.log[j].op \in Enrichments =>
                 \E h \in Calls(f, {"postExists"}, f.log[j].k) :
                   h < j /\ f.log[h].ok /\ f.log[h].val = "absent"

C10_Witness ==
    \E r \in Slots :
      LET f == run[r]
      IN  /\ f.pc = "done" /\ f.ended = "summary"
          /\ \E j \in Pos(f) : f.log[j].op = "postExists" /\ f.log[j].val = "present"
          /\ \E j \in Pos(f) : f.log[j].op = "classifyArticle"

(***************************************************************************)
(* C11.  No failure of an operation on one item aborts the run: a run that *)
(* is over did not throw, and made its postExists call for every scraped   *)
(* item.                                                                   *)
(***************************************************************************)
C11_NoItemFailureAbortsRun ==
    \A r \in Slots :
      LET f == run[r]
      IN  f.pc = "done" =>
            /\ f.ended # "threw"
            /\ \A k \in 1..Len(f.scrapedPosts) : Calls(f, {"postExists"}, k) # {}

(***************************************************************************)
(* C12.  Every invocation goes from fetching through deduplicating and     *)
(* enriching to summarizing and builds one summary before it is over, also *)
(* when nothing was scraped and when nothing scraped was new.              *)
(***************************************************************************)
C12_EveryRunSummarized ==
    \A r \in Slots :
      LET f == run[r]
      IN  f.pc = "done" => /\ f.fetches # <<>>
                           /\ IsSome(f.summary)

(***************************************************************************)
(* C13.  The counts of a run's summary are exact: scraped is the number of *)
(* non-premium listing entries whose article page was fetched, new is the  *)
(* number of postExists calls that answered "absent", stored is the number *)
(* of rows the run inserted.                                               *)
(***************************************************************************)
PagesFetched(f) ==
    {h \in 1..Len(f.fetches) : f.fetches[h].op = "getArticleBody" /\ f.fetches[h].ok}

C13_SummaryCountsExact ==
    \A r \in Slots :
      LET f == run[r]
      IN  /\ \A h \in PagesFetched(f) :
               ~world.listings[f.fetches[h].s][f.fetches[h].j].premium
          /\ IsSome(f.summary) =>
               /\ Get(f.summary).scraped = Cardinality(PagesFetched(f))
               /\ Get(f.summary).new =
                    Cardinality({j \in Pos(f) : /\ f.log[j].op = "postExists"
                                                /\ f.log[j].ok
                                                /\ f.log[j].val = "absent"})
               /\ Get(f.summary).stored =
                    Cardinality({j \in Pos(f) : f.log[j].op \in Inserts /\ f.log[j].ok})
               /\ Get(f.summary).stored =
                    Cardinality({id \in Ids : store[id].by = f.n})

\* A listing of three entries, one premium and one stored before, the other
\* listings giving nothing: scraped 2, new 1, stored 1, one row inserted
C13_Witness ==
    \E r \in Slots :
      LET f == run[r]
      IN  /\ IsSome(f.summary)
          /\ \E s \in 1..Len(world.listings) :
               /\ Len(world.listings[s]) = 3
               /\ \A h \in PagesFetched(f) : f.fetches[h].s = s
          /\ Get(f.summary).scraped = 2
          /\ Get(f.summary).new = 1
          /\ Get(f.summary).stored = 1
          /\ Cardinality({id \in Ids : store[id].by = f.n}) = 1

(***************************************************************************)
(* C14.  An item with a failed insertPost call is not among the stored     *)
(* posts and gets no classification call, the run does not abort, and the  *)
(* items after it still get their insert.                                  *)
(***************************************************************************)
C14_FailedInsertDropsItem ==
    \A r \in Slots : \A k \in 1..Len(run[r].scrapedPosts) :
      LET f == run[r]
      IN  (\E j \in Calls(f, Inserts, k) : ~f.log[j].ok) =>
            /\ ~StoredByRun(f, k)
            /\ Calls(f, {"classifyArticle"}, k) = {}
            /\ f.pc = "done" => f.ended = "summary"
            /\ \A h \in 1..Len(f.newPosts) :
                 Enriched(f, h) => Calls(f, Inserts, f.newPosts[h]) # {}

(***************************************************************************)
(* C15.  A classifyArticle or updatePostClassification failure for one     *)
(* stored post stops nothing: when Step 4 is past a stored post, the post  *)
(* had its classification call and its update call, and where the update   *)
(* returned, the row carries the label of the post's own classification.   *)
(***************************************************************************)
Classified(f, h) ==
    \/ f.pc = "done" /\ f.ended = "summary"
    \/ f.pc \in {"classify", "update"} /\ h < f.i

C15_ClassificationFailureIsPerItem ==
    \A r \in Slots : \A h \in 1..Len(run[r].storedFrom) :
      LET f == run[r]
          k == f.storedFrom[h]
      IN  Classified(f, h) =>
            /\ Cardinality(Calls(f, {"classifyArticle"}, k)) = 1
            /\ Cardinality(Calls(f, {"updatePostClassification"}, k)) = 1
            /\ \A j \in Calls(f, {"updatePostClassification"}, k) :
                 f.log[j].ok =>
                   \A c \in Calls(f, {"classifyArticle"}, k) :
                     RowOf(f, k).is_interesting = f.log[c].val

C15_Witness ==
    \E r \in Slots :
      LET f == run[r]
      IN  /\ f.pc = "done" /\ Len(f.storedFrom) = 2
          /\ \E c \in Calls(f, {"classifyArticle"}, f.storedFrom[1]) : ~f.log[c].ok
          /\ \E j \in Calls(f, {"updatePostClassification"}, f.storedFrom[1]) : ~f.log[j].ok
          /\ \E c \in Calls(f, {"classifyArticle"}, f.storedFrom[2]) :
               f.log[c].ok /\ f.log[c].val = "true"
          /\ \E j \in Calls(f, {"updatePostClassification"}, f.storedFrom[2]) : f.log[j].ok
          /\ RowOf(f, f.storedFrom[2]).is_interesting = "true"

(***************************************************************************)
(* C16.  A listing page that cannot be fetched or lacks the list gives no  *)
(* post for its source and the sources after it are still fetched; an      *)
(* article page that cannot be fetched or lacks the content drops that     *)
(* entry and the entries after it on the listing are still fetched.  So    *)
(* every source has its listing fetch, every entry of a fetched listing    *)
(* that is not skipped has its page fetch, and the scraped posts are, in   *)
(* order, the entries whose page was fetched.                              *)
(***************************************************************************)
Wanted(s, j) ==
    LET item == world.listings[s][j]
    IN  item.h2 /\ ~item.premium /\ item.title # <<>> /\ item.href # <<>>

FetchesOf(f, op, s, j) ==
    {h \in 1..Len(f.fetches) :
       f.fetches[h].op = op /\ f.fetches[h].s = s /\ f.fetches[h].j = j}

\* The fetch the h-th scraped post comes from: the h-th page fetch that gave
\* a page
PageOf(f, h) ==
    CHOOSE g \in PagesFetched(f) :
      Cardinality({e \in PagesFetched(f) : e <= g}) = h

C16_FetchFailureIsLocal ==
    \A r \in Slots :
      LET f == run[r]
      IN  f.fetches # <<>> =>
            /\ \A s \in 1..Len(MONEYCONTROL_URLS) :
                 /\ Cardinality(FetchesOf(f, "listing", s, 0)) = 1
                 /\ \A j \in 1..Len(world.listings[s]) :
                      Cardinality(FetchesOf(f, "getArticleBody", s, j)) =
                        IF /\ \E h \in FetchesOf(f, "listing", s, 0) : f.fetches[h].ok
                           /\ Wanted(s, j)
                        THEN 1 ELSE 0
            /\ Len(f.scrapedPosts) = Cardinality(PagesFetched(f))
            /\ \A h \in 1..Len(f.scrapedPosts) :
                 LET e == f.fetches[PageOf(f, h)]
                 IN  /\ f.scrapedPosts[h].url =
                          NormalizeLink(world.listings[e.s][e.j].href)
                     /\ Get(f.scrapedPosts[h].metadata).scraped_from =
                          MONEYCONTROL_URLS[e.s]

\* The first listing failed and the second was still scraped; on the second
\* the first page failed and the last entry was still scraped
C16_Witness ==
    \E r \in Slots :
      LET f == run[r]
      IN  /\ \E h \in FetchesOf(f, "listing", 1, 0) : ~f.fetches[h].ok
          /\ \E h \in FetchesOf(f, "getArticleBody", 2, 1) : ~f.fetches[h].ok
          /\ \E h \in FetchesOf(f, "getArticleBody", 2, 3) : f.fetches[h].ok
          /\ Len(f.scrapedPosts) = 1
          /\ f.scrapedPosts[1].url = NormalizeLink(world.listings[2][3].href)

C20_ClassifiesStoredContent ==
    \A r \in Slots : \A h \in 1..Len(run[r].articles) :
      LET f == run[r]
          k == f.storedFrom[h]
          row == store[f.storedPosts[h].id]
          transformed == /\ \E t \in Calls(f, {"transform"}, k) : f.log[t].ok
                         /\ \E j \in Calls(f, {"insertPost"}, k) : f.log[j].ok
      IN  /\ f.articles[h].title = row.title
          /\ f.articles[h].url = row.url
          /\ f.articles[h].content = row.content
          /\ f.articles[h].content = IF transformed THEN QA(f.scrapedPosts[k].content)
                                     ELSE f.scrapedPosts[k].content

C20_Witness ==
    \E r \in Slots :
      LET f == run[r]
      IN  /\ Len(f.articles) = 2
          /\ f.articles[1].content = f.scrapedPosts[f.storedFrom[1]].content
          /\ f.articles[1].content # f.articles[1].title
          /\ f.articles[2].content = QA(f.scrapedPosts[f.storedFrom[2]].content)

(***************************************************************************)
(* C18.  Invocations are not mutually exclusive.  When two invocations in  *)
(* progress both got "absent" from postExists for the same source_id, each *)
(* of them goes on to embed the item and to call insertPost for it,        *)
(* whatever the other one has stored meanwhile.                            *)
(***************************************************************************)
FoundAbsent(f, k) ==
    \E j \in Calls(f, {"postExists"}, k) : f.log[j].ok /\ f.log[j].val = "absent"

C18_OverlappingRunsRace ==
    \A r, q \in Slots :
      \A k \in 1..Len(run[r].scrapedPosts), m \in 1..Len(run[q].scrapedPosts) :
        LET f == run[r]
            g == run[q]
        IN  ( /\ r # q
              /\ f.scrapedPosts[k].source_id = g.scrapedPosts[m].source_id
              /\ FoundAbsent(f, k) /\ FoundAbsent(g, m) ) =>
              \A h \in 1..Len(f.newPosts) :
                (f.newPosts[h] = k /\ Enriched(f, h)) =>
                  /\ Calls(f, {"embed"}, k) # {}
                  /\ Calls(f, Inserts, k) # {}

\* Two invocations in progress that both found the item absent and both
\* called insertPost for it: one stored it, the other was rejected
C18_Witness ==
    \E k \in 1..Len(run[1].scrapedPosts), m \in 1..Len(run[2].scrapedPosts) :
      /\ run[1].scrapedPosts[k].source_id = run[2].scrapedPosts[m].source_id
      /\ FoundAbsent(run[1], k) /\ FoundAbsent(run[2], m)
      /\ \E j \in Calls(run[1], {"insertPost"}, k) : run[1].log[j].ok
      /\ \E j \in Calls(run[2], {"insertPost"}, m) : ~run[2].log[j].ok
      /\ Cardinality({id \in Ids :
                        store[id].source_id = run[1].scrapedPosts[k].source_id}) = 1

(***************************************************************************)
(* C19.  Every outbound call of a run is bounded by a timeout, so every    *)
(* invocation that starts comes to its end and its frame is idle again,    *)
(* whatever the providers do.                                              *)
(***************************************************************************)
C19_RunAlwaysTerminates ==
    \A r \in Slots : (run[r].pc = "scrape") ~> (run[r].pc = "idle")

(***************************************************************************)
(* C21.  A row is inserted with is_interesting null (unknown) and keeps it *)
(* until an updatePostClassification call is applied to it; a run makes at *)
(* most one such call per stored post, and its classifyArticle and         *)
(* updatePostClassification calls are only for posts that one of its own   *)
(* insertPost calls returned.                                              *)
(***************************************************************************)
UpdatesOf(f, k) == Calls(f, {"updatePostClassification"}, k)

\* The step is the return of an updatePostClassification call of run r for
\* the row id, the first the run makes for that row
UpdateApplied(r, id) ==
    /\ run[r].pc = "update"
    /\ run[r].storedPosts[run[r].i].id = id
    /\ store[id].by = run[r].n
    /\ UpdatesOf(run[r], run[r].storedFrom[run[r].i]) = {}
    /\ Len(run'[r].log) = Len(run[r].log) + 1
    /\ Last(run'[r].log).op = "updatePostClassification"
    /\ Last(run'[r].log).ok

C21_OwnRowsOnly ==
    \A r \in Slots : \A k \in 1..Len(run[r].scrapedPosts) :
      LET f == run[r]
      IN  /\ Cardinality(UpdatesOf(f, k)) <= 1
          /\ \A c \in Calls(f, {"classifyArticle", "updatePostClassification"}, k) :
               /\ StoredByRun(f, k)
               /\ ReturnedBefore(f, Inserts, k, c)
               /\ RowOf(f, k).by = f.n
          /\ (StoredByRun(f, k) /\ \A j \in UpdatesOf(f, k) : ~f.log[j].ok) =>
               RowOf(f, k).is_interesting = "null"

C21_LabelStep ==
    /\ \A id \in 1..Len(store') : id \notin Ids => store'[id].is_interesting = "null"
    /\ \A id \in Ids :
         store'[id].is_interesting # store[id].is_interesting =>
           \E r \in Slots : UpdateApplied(r, id)

\* C21: rows are inserted unknown, labelled only by the one update of the run
\* that stored them, and a run classifies only what it stored
C21_UnknownUntilClassified == []C21_OwnRowsOnly /\ [][C21_LabelStep]_vars

\* A run stored two posts: the first has its label, the second is still
\* unknown and waits for its classification
C21_Witness ==
    \E r \in Slots :
      LET f == run[r]
      IN  /\ f.pc = "classify" /\ f.i = 2
          /\ \E j \in UpdatesOf(f, f.storedFrom[1]) : f.log[j].ok
          /\ RowOf(f, f.storedFrom[1]).is_interesting = "true"
          /\ UpdatesOf(f, f.storedFrom[2]) = {}
          /\ RowOf(f, f.storedFrom[2]).is_interesting = "null"

(***************************************************************************)
(* C22.  A reply that is no JSON as a whole is parsed from its first       *)
(* brace-delimited object: the classification fails only when the reply    *)
(* holds no such object or that object is no JSON; a valid object followed *)
(* by text with braces is parsed from the object.                          *)
(***************************************************************************)
\* From the first "{" to the first "}" after it
FirstObject(content) ==
    LET opens == {k \in 1..Len(content) : content[k] = "{"}
    IN  IF opens = {} THEN None
        ELSE LET first == CHOOSE k \in opens : \A j \in opens : k <= j
                 after == {k \in 1..Len(content) : content[k] = "}" /\ k > first}
             IN  IF after = {} THEN None
                 ELSE Some(SubSeq(content, first,
                                  CHOOSE k \in after : \A j \in after : k <= j))

\* A classifyArticle call that returned for a reply with content
ClassifiedReply ==
    /\ call.fn = "classifyArticle"
    /\ IsSome(call.result)
    /\ ~call.arg.threw
    /\ call.arg.content # <<>>

\* C22: a reply that is no JSON fails only if its first object is missing or
\* is no JSON
C22_ParsesFirstObject ==
    ClassifiedReply =>
      LET content == call.arg.content
          first == FirstObject(content)
      IN  ~JSONParse(content).ok =>
            (Get(call.result).is_interesting = "null"
               <=> (~IsSome(first) \/ ~JSONParse(Get(first)).ok))

(***************************************************************************)
(* C23.  The label of a parsed reply: true for is_interesting true or      *)
(* "true", false for false or "false" (and for any other or missing        *)
(* value); null (unknown) when the stage failed.                           *)
(***************************************************************************)
\* The value classifyArticle reads the members of: the reply as a whole, or
\* what the pattern matched
Payload(content) ==
    IF JSONParse(content).ok THEN JSONParse(content).value
    ELSE JSONParse(Get(JsonMatch(content))).value

\* C23 as stated: a reply that was parsed never gets the label unknown
C23_UnknownOnlyOnFailure ==
    (call.fn = "classifyArticle" /\ IsSome(call.result)) =>
      LET label == Get(call.result).is_interesting
      IN  IF StageFails(call.arg) THEN label = "null"
          ELSE LET v == Field(Payload(call.arg.content).members, "is_interesting")
               IN  /\ label # "null"
                   /\ v \in {"true", "'true'"} => label = "true"
                   /\ v \in {"false", "'false'"} => label = "false"

\* C23, amended: the label is unknown exactly when the stage failed or the
\* reply parsed to null; a parsed object or number is labelled true for true
\* or "true" and false otherwise
C23_LabelCoercion ==
    (call.fn = "classifyArticle" /\ IsSome(call.result)) =>
      LET label == Get(call.result).is_interesting
      IN  IF StageFails(call.arg) THEN label = "null"
          ELSE LET payload == Payload(call.arg.content)
                   v == Field(payload.members, "is_interesting")
               IN  /\ label = "null" <=> payload.kind = "null"
                   /\ payload.kind # "null" =>
                        /\ v \in {"true", "'true'"} => label = "true"
                        /\ v \in {"false", "'false'"} => label = "false"
                        /\ label \in {"true", "false"}

\* A decision wrapped in text, with the label as a string
C23_Witness ==
    /\ call.fn = "classifyArticle"
    /\ IsSome(call.result)
    /\ call.arg = Reply(<<"text", "{", "is_interesting='true'", "}">>)
    /\ Get(call.result).is_interesting = "true"

(***************************************************************************)
(* C24.  A run handles its items in the order they were scraped: the h-th  *)
(* postExists call is for the h-th scraped post and, once Step 2 is over,  *)
(* every scraped post had one; the insertPost calls and the                *)
(* classifyArticle calls are each for posts later and later in the scraped *)
(* sequence, no post twice.                                                *)
(***************************************************************************)
\* The positions in f's log of the calls of ops, for whatever item
CallsOf(f, ops) == {j \in Pos(f) : f.log[j].op \in ops}

\* The calls of ops are for a subsequence of the scraped posts, in order
InScrapedOrder(f, ops) ==
    \A i, j \in CallsOf(f, ops) : i < j => f.log[i].k < f.log[j].k

\* C24: dedup checks follow the scraped sequence, insert attempts and
\* classification calls are order-preserving subsequences of it
C24_ListingOrder ==
    \A r \in Slots :
      LET f == run[r]
      IN  /\ \A j \in CallsOf(f, {"postExists"}) :
               f.log[j].k = Cardinality({i \in CallsOf(f, {"postExists"}) : i <= j})
          /\ f.pc \in {"embed", "transform", "insert", "catch", "classify", "update"} =>
               Cardinality(CallsOf(f, {"postExists"})) = Len(f.scrapedPosts)
          /\ InScrapedOrder(f, Inserts)
          /\ InScrapedOrder(f, {"classifyArticle"})

(***************************************************************************)
(* C25.  The page fetches of one scrape are made one after another, source *)
(* by source in the configured order, with a pause between every two: a    *)
(* sleep directly before each getArticleBody call and a sleep after each   *)
(* source, whatever its listing gave, before the next listing is fetched.  *)
(***************************************************************************)
\* The positions of the page requests in f's trace
Requests(f) ==
    {h \in 1..Len(f.fetches) : f.fetches[h].op \in {"listing", "getArticleBody"}}

\* Position h of the trace is a sleep of some length
Paused(f, h) ==
    /\ h \in 1..Len(f.fetches)
    /\ f.fetches[h].op = "sleep"
    /\ f.fetches[h].ms > 0

\* C25: sources in turn, and a delay between every two consecutive fetches
C25_PolitenessDelay ==
    \A r \in Slots :
      LET f == run[r]
      IN  /\ \A a, b \in Requests(f) :
               a < b => /\ f.fetches[a].s <= f.fetches[b].s
                        /\ \E c \in (a + 1)..(b - 1) : Paused(f, c)
          /\ \A h \in Requests(f) :
               /\ f.fetches[h].op = "getArticleBody" =>
                    Paused(f, h - 1) /\ f.fetches[h - 1].j = f.fetches[h].j
               /\ (f.fetches[h].op = "listing" /\ f.fetches[h].s > 1) =>
                    /\ Paused(f, h - 1)
                    /\ f.fetches[h - 1].s = f.fetches[h].s - 1
                    /\ f.fetches[h - 1].j = 0

\* The first listing failed, the second gave two pages: a pause after the
\* failed source, before each page and after the second source
C25_Witness ==
    \E r \in Slots :
      LET f == run[r]
      IN  /\ Len(f.fetches) >= 9
          /\ f.fetches[1].op = "listing" /\ ~f.fetches[1].ok
          /\ Paused(f, 2)
          /\ f.fetches[3].op = "listing" /\ f.fetches[3].ok
          /\ Paused(f, 4) /\ f.fetches[5].op = "getArticleBody"
          /\ Paused(f, 6) /\ f.fetches[7].op = "getArticleBody"
          /\ Paused(f, 8) /\ f.fetches[9].op = "listing"

(***************************************************************************)
(* C26.  source_id is a function of the article's URL that never gives two *)
(* different URLs the same value: the same URL has the same source_id, and *)
(* two different URLs have different ones.                                 *)
(***************************************************************************)
\* C26: equal URLs give equal source_ids, different URLs different ones
C26_SourceIdUnique ==
    (call.fn = "source_id" /\ IsSome(call.result)) =>
      (call.arg[1] = call.arg[2] <=> Get(call.result)[1] = Get(call.result)[2])

(***************************************************************************)
(* C27.  A premium entry of a listing is passed over before its page is    *)
(* asked for: the scrape makes no getArticleBody call and no sleep for it  *)
(* and scrapes no post from its link, and the entries after it on the      *)
(* listing still get their page fetch.                                     *)
(***************************************************************************)
\* Entry j of listing s carries the isPremiumCrown mark
Premium(s, j) == world.listings[s][j].h2 /\ world.listings[s][j].premium

\* C27: no request and no record for a premium entry, the rest goes on
C27_PremiumSkippedBeforeFetch ==
    \A r \in Slots : \A s \in 1..Len(MONEYCONTROL_URLS) :
      \A j \in 1..Len(world.listings[s]) :
        LET f == run[r]
        IN  (f.fetches # <<>> /\ Premium(s, j)) =>
              /\ FetchesOf(f, "getArticleBody", s, j) = {}
              /\ FetchesOf(f, "sleep", s, j) = {}
              /\ \A h \in 1..Len(f.scrapedPosts) :
                   f.scrapedPosts[h].url # NormalizeLink(world.listings[s][j].href)
              /\ (\E h \in FetchesOf(f, "listing", s, 0) : f.fetches[h].ok) =>
                   \A i \in (j + 1)..Len(world.listings[s]) :
                     Wanted(s, i) => FetchesOf(f, "getArticleBody", s, i) # {}

\* The listing with the premium entry came back and the entry after the
\* premium one was scraped
C27_Witness ==
    \E r \in Slots :
      LET f == run[r]
      IN  /\ Premium(2, 2)
          /\ \E h \in FetchesOf(f, "listing", 2, 0) : f.fetches[h].ok
          /\ \E h \in FetchesOf(f, "getArticleBody", 2, 3) : f.fetches[h].ok
          /\ \E h \in 1..Len(f.scrapedPosts) :
               f.scrapedPosts[h].url = NormalizeLink(world.listings[2][3].href)

(***************************************************************************)
(* C28.  updatePostClassification with an id no row has returns no record  *)
(* and leaves the table as it was; with the id of a row it returns that    *)
(* row as updated, with the label it was given, and nothing but the row's  *)
(* is_interesting and metadata differs from before (updated_at is not a    *)
(* column of the model's rows).                                            *)
(***************************************************************************)
\* The columns the UPDATE does not set
ColumnsKept(row) == DOMAIN row \ {"is_interesting", "metadata"}

\* C28: NotFound changes nothing; found changes one row's label and metadata
C28_UpdateTouchesOneRow ==
    (call.fn = "updatePostClassification" /\ IsSome(call.result)) =>
      LET a == call.arg
          res == Get(call.result)
      IN  /\ Len(store) = Len(StoredRows)
          /\ \A id \in Ids : id # a.postId => store[id] = StoredRows[id]
          /\ ~res.ok => store = StoredRows
          /\ (res.ok /\ a.postId \notin Ids) =>
               res.value = <<>> /\ store = StoredRows
          /\ (res.ok /\ a.postId \in Ids) =>
               /\ res.value = <<store[a.postId]>>
               /\ store[a.postId].is_interesting = a.isInteresting
               /\ \A c \in ColumnsKept(store[a.postId]) :
                    store[a.postId][c] = StoredRows[a.postId][c]

\* A call with the id after the last row's returned without a record
C28_Witness ==
    /\ call.fn = "updatePostClassification"
    /\ IsSome(call.result)
    /\ call.arg.postId \notin Ids
    /\ Get(call.result).ok
    /\ Get(call.result).value = <<>>
    /\ store = StoredRows

(***************************************************************************)
(* C29.  A scrape handles at most maxArticlesPerURL entries of a listing,  *)
(* the first ones: per source it makes at most that many getArticleBody    *)
(* calls, none for a later entry, and gives at most that many posts, so    *)
(* the scraped posts are at most maxArticlesPerURL times the sources.      *)
(***************************************************************************)
\* The page requests of f's scrape for source s
PageRequests(f, s) ==
    {h \in 1..Len(f.fetches) : f.fetches[h].op = "getArticleBody" /\ f.fetches[h].s = s}

\* The scraped posts of f that come from source s
PostsFrom(f, s) ==
    {h \in 1..Len(f.scrapedPosts) :
       Get(f.scrapedPosts[h].metadata).scraped_from = MONEYCONTROL_URLS[s]}

\* C29: at most N entries, N page fetches and N posts per source
C29_AtMostMaxArticlesPerSource ==
    \A r \in Slots :
      LET f == run[r]
      IN  /\ \A s \in 1..Len(MONEYCONTROL_URLS) :
               /\ Cardinality(PageRequests(f, s)) <= maxArticlesPerURL
               /\ \A h \in PageRequests(f, s) : f.fetches[h].j <= maxArticlesPerURL
               /\ Cardinality(PostsFrom(f, s)) <= maxArticlesPerURL
          /\ Len(f.scrapedPosts) <= maxArticlesPerURL * Len(MONEYCONTROL_URLS)
          /\ IsSome(f.summary) =>
               Get(f.summary).scraped <= maxArticlesPerURL * Len(MONEYCONTROL_URLS)

\* A listing of seven entries: the first five fetched and scraped, the other
\* two not asked for
C29_Witness ==
    \E r \in Slots :
      LET f == run[r]
      IN  /\ Len(world.listings[1]) > maxArticlesPerURL
          /\ Cardinality(PageRequests(f, 1)) = maxArticlesPerURL
          /\ Cardinality(PostsFrom(f, 1)) = maxArticlesPerURL
          /\ IsSome(f.summary)
          /\ Get(f.summary).scraped = maxArticlesPerURL

(***************************************************************************)
(* C30.  parseMoneycontrolDate gives a valid timestamp for every           *)
(* published-time text: the time of the call for an empty text and for one *)
(* that is a date neither as it is nor with the label and the time zone    *)
(* stripped, the date otherwise; the scraped record's published_at is what *)
(* it gave.                                                                *)
(***************************************************************************)
\* The text is a date neither as it is nor after the labels are stripped
Unparseable(text) == ~DateValid(text) /\ ~DateValid(DropIST(DropLabel(text)))

\* C30: always a valid timestamp, the ingestion time on empty or unparseable
C30_DateNeverFails ==
    (call.fn = "parseMoneycontrolDate" /\ IsSome(call.result)) =>
      LET res == Get(call.result)
      IN  /\ res.parsed \in {"D", "now"}
          /\ (call.arg = <<>> \/ Unparseable(call.arg)) <=> res.parsed = "now"
          /\ res.published_at = res.parsed

\* A text with a label and no date: the record's published_at is the time
\* of the scrape
C30_Witness ==
    /\ call.fn = "parseMoneycontrolDate"
    /\ IsSome(call.result)
    /\ call.arg = <<"Updated", ":", "x">>
    /\ Get(call.result).published_at = "now"

(***************************************************************************)
(* C31.  With CRON_SCHEDULE unset the scheduled runs start six hours       *)
(* apart: no two starts by the scheduler's task are less than six hours    *)
(* from each other.                                                        *)
(***************************************************************************)
SixHours == 6 * MinutesPerHour

\* C31: with the default schedule two scheduled starts are >= 6 hours apart
C31_DefaultEverySixHours ==
    (sched.pc = "up" /\ ~IsSome(sched.env.CRON_SCHEDULE)) =>
      \A i, j \in 1..Len(sched.starts) :
        (i < j /\ sched.starts[i].by = "tick" /\ sched.starts[j].by = "tick") =>
          sched.starts[j].at - sched.starts[i].at >= SixHours

(***************************************************************************)
(* C39.  A disabled scheduler (ENABLE_CRON=false) registers no task and    *)
(* starts no startup run, whatever RUN_ON_STARTUP says, so every run is a  *)
(* manually triggered one; an enabled scheduler starts a startup run       *)
(* exactly when RUN_ON_STARTUP is 'true', and starts a run at every minute *)
(* its schedule matches, whether or not an earlier run is in progress.     *)
(***************************************************************************)
\* The starts the scheduler has recorded for a caller
StartsBy(by) == { i \in 1..Len(sched.starts) : sched.starts[i].by = by }

\* The minutes that have begun since startCronJob returned
MinutesSinceUp == (sched.now - sched.ticks + 1)..sched.now

\* C39: disabled => no task, only manual runs; enabled => a startup run iff
\* RUN_ON_STARTUP is 'true', and one scheduled start per matching minute
C39_SchedulerSwitches ==
    sched.pc = "up" =>
      IF sched.env.ENABLE_CRON = "false"
      THEN /\ sched.task = None
           /\ StartsBy("startup") = {}
           /\ StartsBy("tick") = {}
      ELSE /\ StartsBy("startup") =
                (IF sched.env.RUN_ON_STARTUP = "true" THEN {1} ELSE {})
           /\ \A m \in MinutesSinceUp :
                LET expr == IF sched.env.CRON_SCHEDULE = None
                            THEN DefaultSchedule ELSE sched.env.CRON_SCHEDULE[1]
                IN  Matches(expr, m) <=>
                      \E i \in StartsBy("tick") : sched.starts[i].at = m

\* A scheduled start found the startup run still in progress
C39_Witness ==
    /\ sched.pc = "up"
    /\ StartsBy("startup") = {1}
    /\ \E i \in StartsBy("tick") : sched.starts[i].busy

(***************************************************************************)
(* C32.  The table never holds two rows with the same source_id, under     *)
(* overlapping invocations and when one invocation scraped the same        *)
(* article from two listings: the later INSERT is rejected by the UNIQUE   *)
(* constraint, the INSERT of the catch block is rejected too, and the      *)
(* invocation neither pushes the item to storedPosts nor classifies it.    *)
(***************************************************************************)
\* The rows of the table with a source_id
RowsWith(sourceId) == {id \in Ids : store[id].source_id = sourceId}

\* The items of run f, by their index in scrapedPosts, with a source_id
ItemsWith(f, sourceId) ==
    {k \in 1..Len(f.scrapedPosts) : f.scrapedPosts[k].source_id = sourceId}

\* C32: one row per source_id; a run stores at most one item per source_id,
\* none when the row is another run's, and classifies only what it stored
C32_SourceIdStoredOnce ==
    /\ \A id \in Ids : RowsWith(store[id].source_id) = {id}
    /\ \A r \in Slots :
         LET f == run[r]
         IN  \A k \in 1..Len(f.scrapedPosts) :
               LET sid == f.scrapedPosts[k].source_id
                   mine == {m \in ItemsWith(f, sid) : StoredByRun(f, m)}
               IN  /\ Cardinality(mine) <= 1
                   /\ (\E id \in RowsWith(sid) : store[id].by # f.n) => mine = {}
                   /\ ~StoredByRun(f, k) => Calls(f, {"classifyArticle"}, k) = {}
                   /\ Cardinality({h \in 1..Len(f.storedPosts) :
                                     f.storedPosts[h].source_id = sid}) <= 1

\* Two invocations in progress called insertPost for the same source_id; the
\* second one's INSERT and the INSERT of its catch block both failed while
\* the database was reachable for the row's owner, and it has finished
\* without storing or classifying the item
C32_Witness ==
    \E r, q \in Slots : \E k \in 1..Len(run[r].scrapedPosts) :
      LET f == run[r]
          sid == f.scrapedPosts[k].source_id
      IN  /\ r # q
          /\ run[q].pc # "idle"
          /\ \E id \in RowsWith(sid) : store[id].by = run[q].n
          /\ \E j \in Calls(f, {"insertPost"}, k) : ~f.log[j].ok
          /\ \E j \in Calls(f, {"insertPost (catch)"}, k) : ~f.log[j].ok
          /\ f.pc = "done"
          /\ ~StoredByRun(f, k)

(***************************************************************************)
(* C33.  Within one run no source_id is enriched twice: when the same      *)
(* article is scraped from two listing sources, the run calls the          *)
(* embedding and the transform provider for it at most once and holds it   *)
(* at most once in newPosts.                                               *)
(***************************************************************************)
\* The positions in f's log of the calls op made for the items with a
\* source_id
CallsFor(f, op, sourceId) ==
    {j \in Pos(f) : f.log[j].op = op /\ f.log[j].k \in ItemsWith(f, sourceId)}

\* C33: per run and source_id at most one newPosts entry, one embed call and
\* one transform call
C33_EnrichedOncePerRun ==
    \A r \in Slots :
      LET f == run[r]
      IN  \A k \in 1..Len(f.scrapedPosts) :
            LET sid == f.scrapedPosts[k].source_id
            IN  /\ Cardinality({h \in 1..Len(f.newPosts) :
                                  f.newPosts[h] \in ItemsWith(f, sid)}) <= 1
                /\ Cardinality(CallsFor(f, "embed", sid)) <= 1
                /\ Cardinality(CallsFor(f, "transform", sid)) <= 1

(***************************************************************************)
(* C34.  At every point of every run the tallies are ordered: classified   *)
(* as interesting <= stored <= new <= scraped, and the stored tally is the *)
(* number of rows of the table that this run inserted.                     *)
(***************************************************************************)
\* The rows an invocation inserted
RowsBy(n) == {id \in Ids : store[id].by = n}

\* C34: classifiedCount <= storedPosts.length <= newPosts.length <=
\* scrapedPosts.length, and storedPosts.length = rows inserted by the run
C34_TalliesOrdered ==
    \A r \in Slots :
      LET f == run[r]
      IN  f.pc # "idle" =>
            /\ f.classifiedCount <= Len(f.storedPosts)
            /\ Len(f.storedPosts) <= Len(f.newPosts)
            /\ Len(f.newPosts) <= Len(f.scrapedPosts)
            /\ Len(f.storedPosts) = Cardinality(RowsBy(f.n))

\* A finished run that scraped more than it found new, lost one of its new
\* posts to a rejected insert and classified one stored post as interesting
C34_Witness ==
    \E r \in Slots :
      LET f == run[r]
      IN  /\ f.pc = "done" /\ f.ended = "summary"
          /\ f.classifiedCount = 1
          /\ Len(f.storedPosts) = 1
          /\ Len(f.newPosts) = 2
          /\ Len(f.scrapedPosts) = 3

(***************************************************************************)
(* C37.  The statistics partition the table: total = interesting +         *)
(* notInteresting + unclassified, with unclassified the number of rows     *)
(* whose is_interesting is null; and GET /api/posts with                   *)
(* is_interesting=null returns only unclassified rows.                     *)
(***************************************************************************)
\* The rows of the table with a label
Labelled_As(label) == {id \in Ids : store[id].is_interesting = label}

\* C37: the statistics add up and count the null rows as unclassified, and
\* the listing filtered by null holds only null rows
C37_StatsPartition ==
    /\ (call.fn = "GET /api/posts/stats" /\ IsSome(call.result)) =>
         LET s == Get(call.result)
         IN  /\ s.total = s.interesting + s.notInteresting + s.unclassified
             /\ s.unclassified = Cardinality(Labelled_As("null"))
    /\ (call.fn = "GET /api/posts" /\ call.arg = "null" /\ IsSome(call.result)) =>
         \A i \in 1..Len(Get(call.result).data) :
             Get(call.result).data[i].is_interesting = "null"

(***************************************************************************)
(* C35.  A PUT /api/posts/:id whose body carries no is_interesting leaves  *)
(* the row's is_interesting as it is, also when the pipeline's             *)
(* classification of the same row commits between the handler's read of    *)
(* the row and its update.                                                 *)
(***************************************************************************)
\* C35: the update of a PUT without is_interesting does not change the
\* row's label
C35_PutKeepsLabel ==
    [][ ( /\ put.pc = "update"
          /\ put'.pc = "idle"
          /\ put'.status = 200
          /\ Get(put.body).is_interesting = "undefined" ) =>
            store'[put.id].is_interesting = store[put.id].is_interesting ]_vars

(***************************************************************************)
(* C36.  PUT /api/posts/:id changes only is_interesting and metadata: for  *)
(* an id in the table every other column of the row is as before and a     *)
(* body metadata that is an object is merged into the row's metadata; for  *)
(* an id that is no number or that no row has, the table is as before and  *)
(* the response is an error (400 or 404).                                  *)
(***************************************************************************)
\* The columns of a row that a PUT leaves alone
KeptColumns ==
    {"id", "source", "source_id", "title", "content", "url", "author",
     "published_at", "embedding", "embedding_v2", "by"}

\* A request ends with a response
Responds == put'.pc = "idle" /\ put'.status # 0 /\ putsDone' = putsDone + 1

\* C36: a PUT's write keeps the other columns and merges object metadata;
\* a PUT that answers an error changes nothing, and 200 is answered only
\* for a row of the table
C36_PutUpdatesOnlyLabelAndMetadata ==
    [][ Responds =>
          IF put'.status = 200
          THEN /\ put.pc = "update" /\ put.id \in Ids
               /\ Len(store') = Len(store)
               /\ \A id \in Ids : id # put.id => store'[id] = store[id]
               /\ \A c \in KeptColumns : store'[put.id][c] = store[put.id][c]
               /\ LET metadata == Get(put.body).metadata
                      old == IF IsSome(store[put.id].metadata)
                             THEN Get(store[put.id].metadata) ELSE EmptyObject
                  IN  (IsSome(metadata) /\ ~IsArray(Get(metadata))) =>
                        store'[put.id].metadata = Some(Merge(old, Get(metadata)))
          ELSE store' = store ]_vars

(***************************************************************************)
(* C38, as the claim states it.  A reply that was parsed is labelled true  *)
(* only for is_interesting true or "true"; with the member missing or of   *)
(* any other value, and with a parsed value that is no object, it is a     *)
(* valid not-interesting decision: the row is stored with is_interesting   *)
(* false, not unknown.                                                     *)
(***************************************************************************)
\* The label the claim gives a parsed payload
LabelOf(payload) ==
    IF Field(payload.members, "is_interesting") \in {"true", "'true'"}
    THEN "true" ELSE "false"

\* C38 as stated: every parsed reply is a decision, true or false, and the
\* row gets that label
C38_ParsedIsDecision ==
    (call.fn = "Step 4" /\ IsSome(call.result) /\ ~StageFails(call.arg)) =>
      LET label == Get(call.result).classification.is_interesting
      IN  /\ label = LabelOf(Payload(call.arg.content))
          /\ Get(call.result).updated => store[1].is_interesting = label

(***************************************************************************)
(* C38, amended.  The same for every parsed value but null: an object, a   *)
(* number, a string and an array are decisions, true only for              *)
(* is_interesting true or "true"; the reply null is parsed but read as a   *)
(* failure, and the row stays unknown.                                     *)
(***************************************************************************)
\* C38, amended: parsed values other than null are decisions and the row
\* gets the label; null gives unknown
C38_ParsedNonNullIsDecision ==
    (call.fn = "Step 4" /\ IsSome(call.result) /\ ~StageFails(call.arg)) =>
      LET label == Get(call.result).classification.is_interesting
          payload == Payload(call.arg.content)
      IN  /\ label = IF payload.kind = "null" THEN "null" ELSE LabelOf(payload)
          /\ Get(call.result).updated => store[1].is_interesting = label

\* The reply is a JSON array: the unclassified row is stored as not
\* interesting
C38_Witness ==
    /\ call.fn = "Step 4"
    /\ call.arg = Reply(<<"[]">>)
    /\ IsSome(call.result)
    /\ Get(call.result).updated
    /\ Get(call.result).classification.is_interesting = "false"
    /\ store[1].is_interesting = "false"
    /\ StoredRows[1].is_interesting = "null"
====
